---- MODULE Spec2Model ----
(***************************************************************************)
(* A model of fmp_toolbox: the FileMaker client ProjectChangingClerk (its  *)
(* constructor and the retry wrapper _auto_relogin_fm), the batch location *)
(* sync of update_fmp_project_location.py and the manager change of        *)
(* change_project_pm.py.                                                   *)
(*                                                                         *)
(* Python strings are sequences of one-character strings, so that          *)
(* `'952' in str(e)`, str.strip() and `+` are computed as the code does.   *)
(***************************************************************************)
EXTENDS Integers, Sequences, FiniteSets, TLC

VARIABLES
    prog,       \* which program runs: "client" (one wrapped call), "batch", "pm"
    cpc,        \* ProjectChangingClerk.__init__: "new", "probe_url", "probe_net", "ready", "failed"
    ctor_error, \* what __init__ raised: "none", "no_internet", "no_server", "propagated"
    ctor_login, \* the answer to the login() of __init__: "none", "ok", "failed"
    url_probe,  \* the answer to requests.get(url): "none", "ok", "ConnectionError", "other"
    net_probe,  \* the answer to requests.get("https://www.google.com"), likewise
    session,    \* whether fm_server holds a session token obtained by login()
    auto_login_attempts, \* self.auto_login_attempts
    script,     \* the remote system's answers to the successive calls of server_method
    ipc,        \* _auto_relogin_fm: "idle", "call", "except", "returned", "raised"
    attempted,  \* the local counter of _auto_relogin_fm
    caught,     \* the exception e bound by `except Exception as e`
    iresult,    \* what _auto_relogin_fm gave its caller
    calls,      \* calls of server_method made by the current _auto_relogin_fm
    logins,     \* calls of fm_server.login() made by the current _auto_relogin_fm
    login_failed, \* whether one of those login() calls raised
    warned,     \* warnings.warn calls made by the current _auto_relogin_fm
    faults_seen, \* the exceptions server_method raised in the current _auto_relogin_fm
    op,         \* the remote method wrapped by the current _auto_relogin_fm
    remote,     \* the Projects of the FileMaker database, by record handle
    rows,       \* the rows of project_location_df iterated so far (all of them in a second run)
    ridx,       \* the position of the current row in project_location_df
    bpc,        \* the batch loop: "loop", "number", "id", "edit", "finished"
    status,     \* the UpdateStatus object
    fmp_proj_num_foundset, \* local of the loop body
    fmp_proj_id_foundset,  \* local of the loop body
    edits,      \* the edit_record calls issued in this run: row, record_id, field_data
    errors_logged, \* logger.error calls of the `except Exception` of the loop body
    row_start,  \* the status when the current row began
    run,        \* 1 in the first run of the script, 2 in a second run
    fault_log,  \* how the remote system answered each call of a row
    faults_used, \* the faults the remote system raised in the first run
    first_run,  \* what the first run left: its status and the remote state
    people,     \* the rows of the people table, in the order the remote system returns them
    ppc,        \* change_project_pm.py: the position of the interactive program
    project_to_change, \* PmChangeService.project_to_change
    target_pm,  \* PmChangeService.target_pm
    project_foundset_df, \* local of elicit_project_to_change
    pm_choices_df, \* local of elicit_new_pm
    old_pm_name, \* local of change_project_pm
    answer_kind, \* how the remote system answered the last call of the interactive program
    note_line,  \* the audit line change_project_pm generated for the notes
    request,    \* the call of fm_server the interactive program has wrapped
    pm_edits,   \* the edit_record calls of change_project_pm: what was sent and what it replaced
    changes,    \* the calls of change_project_pm that returned
    path_text,  \* the path text handed to split_path and db_path_to_user_path
    tpc,        \* position of the path conversion: "idle", "split", "joined"
    path_parts, \* what split_path(path_text) returned
    user_path   \* what db_path_to_user_path(path_text) returned

clientVars == <<cpc, ctor_error, ctor_login, url_probe, net_probe, session,
                auto_login_attempts>>
invokeVars == <<script, ipc, attempted, caught, iresult, calls, logins,
                login_failed, warned, faults_seen>>
batchVars == <<op, remote, rows, ridx, bpc, status, fmp_proj_num_foundset,
               fmp_proj_id_foundset, edits, errors_logged, row_start, run,
               fault_log, faults_used, first_run>>
pmVars == <<people, ppc, project_to_change, target_pm, project_foundset_df,
            pm_choices_df, old_pm_name, note_line, request, answer_kind,
            pm_edits, changes>>
pathVars == <<path_text, tpc, path_parts, user_path>>
vars == <<prog, clientVars, invokeVars, batchVars, pmVars, pathVars>>

----------------------------------------------------------------------------
(* Bounds of the model.                                                    *)

\* the attempt budgets tried are 1..MaxBudget
MaxBudget == 3

\* self.auto_login_attempts = 3
DefaultAttempts == 3

\* project_location_df holds at most MaxRows rows
MaxRows == 2

\* the remote system raises at most MaxFaults faults in a run
MaxFaults == 1

\* the interactive program is followed through at most MaxChanges changes
MaxChanges == 2

----------------------------------------------------------------------------
(* Python strings.                                                         *)

DigitChar == <<"0","1","2","3","4","5","6","7","8","9">>

\* str(n) of a natural number
RECURSIVE Digits(_)
Digits(n) ==
    IF n < 10 THEN <<DigitChar[n + 1]>>
    ELSE Digits(n \div 10) \o <<DigitChar[(n % 10) + 1]>>

\* `p in s` of two strings
Contains(s, p) ==
    \E i \in 1..(Len(s) - Len(p) + 1) : SubSeq(s, i, i + Len(p) - 1) = p

\* the characters str.strip() removes, among the characters with a code
\* point below 256: tab, line feed, vertical tab, form feed, carriage
\* return, the four separators U+001C..U+001F, space, U+0085 and U+00A0
Whitespace ==
    {"\t", "\n", "", "\f", "\r", "", "", "", "", " ",
     "", " "}

RECURSIVE LStrip(_)
LStrip(s) ==
    IF s # <<>> /\ Head(s) \in Whitespace THEN LStrip(Tail(s)) ELSE s

RECURSIVE RStrip(_)
RStrip(s) ==
    IF s # <<>> /\ s[Len(s)] \in Whitespace
    THEN RStrip(SubSeq(s, 1, Len(s) - 1))
    ELSE s

Strip(s) == RStrip(LStrip(s))

\* s.startswith(p)
StartsWith(s, p) == Len(p) <= Len(s) /\ SubSeq(s, 1, Len(p)) = p

\* s.endswith(p)
EndsWith(s, p) ==
    Len(p) <= Len(s) /\ SubSeq(s, Len(s) - Len(p) + 1, Len(s)) = p

----------------------------------------------------------------------------
(* split_path and db_path_to_user_path (update_fmp_project_location.py),   *)
(* with os.path taken as posixpath: the script runs on a POSIX host.       *)

\* FILE_SERVER_LOCATION = "N:\\PPDO\\Records\\"
FILE_SERVER_LOCATION ==
    <<"N",":","\\","P","P","D","O","\\","R","e","c","o","r","d","s","\\">>

Letters ==
    {"a","b","c","d","e","f","g","h","i","j","k","l","m","n","o","p","q","r",
     "s","t","u","v","w","x","y","z","A","B","C","D","E","F","G","H","I","J",
     "K","L","M","N","O","P","Q","R","S","T","U","V","W","X","Y","Z"}

\* re.match(r"^[A-Za-z]:\\(.+)$", filepath)
MatchesWindowsPattern(filepath) ==
    /\ Len(filepath) >= 4
    /\ filepath[1] \in Letters
    /\ filepath[2] = ":"
    /\ filepath[3] = "\\"
    /\ LET rest == SubSeq(filepath, 4, Len(filepath))
           \* `$` also matches just before a final newline
           body == IF rest[Len(rest)] = "\n"
                   THEN SubSeq(rest, 1, Len(rest) - 1)
                   ELSE rest
       IN  body # <<>> /\ \A i \in 1..Len(body) : body[i] # "\n"

\* re.match(r"^/([^/]+/)*[^/]+$", filepath)
MatchesLinuxPattern(filepath) ==
    /\ Len(filepath) >= 2
    /\ filepath[1] = "/"
    /\ filepath[Len(filepath)] # "/"
    /\ \A i \in 1..(Len(filepath) - 1) :
          ~(filepath[i] = "/" /\ filepath[i + 1] = "/")

detect_filepath_type(filepath) ==
    IF MatchesWindowsPattern(filepath) THEN "Windows"
    ELSE IF MatchesLinuxPattern(filepath) THEN "Linux"
    ELSE "Unknown"

\* a variant of the loop that closes a part at every backslash, empty or not
RECURSIVE WindowsScanKeepingEmpty(_, _, _, _)
WindowsScanKeepingEmpty(filepath, i, parts, curr_part) ==
    IF i > Len(filepath) THEN [parts |-> parts, curr_part |-> curr_part]
    ELSE IF filepath[i] = "\\"
         THEN WindowsScanKeepingEmpty(filepath, i + 1,
                                      Append(parts, curr_part), <<>>)
         ELSE WindowsScanKeepingEmpty(filepath, i + 1, parts,
                                      Append(curr_part, filepath[i]))

\* the `for char in filepath` loop of split_windows_path, from position i
RECURSIVE WindowsScan(_, _, _, _)
WindowsScan(filepath, i, parts, curr_part) ==
    IF i > Len(filepath) THEN [parts |-> parts, curr_part |-> curr_part]
    ELSE IF filepath[i] = "\\"
         THEN IF curr_part # <<>>
              THEN WindowsScan(filepath, i + 1, Append(parts, curr_part), <<>>)
              ELSE WindowsScan(filepath, i + 1, parts, curr_part)
         ELSE WindowsScan(filepath, i + 1, parts,
                          Append(curr_part, filepath[i]))

split_windows_path(filepath) ==
    LET unc == StartsWith(filepath, <<"\\", "\\">>)
        is_absolute == ~unc /\ Len(filepath) >= 2 /\ filepath[2] = ":"
        parts0 == IF unc \/ is_absolute THEN <<SubSeq(filepath, 1, 2)>>
                  ELSE <<>>
        rest == IF unc \/ is_absolute THEN SubSeq(filepath, 3, Len(filepath))
                ELSE filepath
        scan == WindowsScan(rest, 1, parts0, <<>>)
        parts1 == IF scan.curr_part # <<>>
                  THEN Append(scan.parts, scan.curr_part)
                  ELSE scan.parts
    IN  IF ~is_absolute /\ parts1 = <<>>
        THEN Append(parts1, scan.curr_part)
        ELSE parts1

\* the index after the last "/" of p, 0 when there is none: p.rfind('/') + 1
RECURSIVE LastSlash(_, _)
LastSlash(p, i) ==
    IF i = 0 THEN 0
    ELSE IF p[i] = "/" THEN i
    ELSE LastSlash(p, i - 1)

RECURSIVE RStripSlash(_)
RStripSlash(s) ==
    IF s # <<>> /\ s[Len(s)] = "/"
    THEN RStripSlash(SubSeq(s, 1, Len(s) - 1))
    ELSE s

\* os.path.split(p): <<head, tail>>
PathSplit(p) ==
    LET i == LastSlash(p, Len(p))
        head == SubSeq(p, 1, i)
        tail == SubSeq(p, i + 1, Len(p))
    IN  IF head # <<>> /\ RStripSlash(head) # <<>>
        THEN <<RStripSlash(head), tail>>
        ELSE <<head, tail>>

\* the `while True` loop of split_other_path
RECURSIVE OtherLoop(_, _)
OtherLoop(path, allparts) ==
    LET parts == PathSplit(path)
    IN  IF parts[1] = path THEN <<parts[1]>> \o allparts
        ELSE IF parts[2] = path THEN <<parts[2]>> \o allparts
        ELSE OtherLoop(parts[1], <<parts[2]>> \o allparts)

split_other_path(path) == OtherLoop(path, <<>>)

split_path(path) ==
    IF detect_filepath_type(path) = "Windows"
    THEN split_windows_path(path)
    ELSE split_other_path(path)

\* os.path.join(path, *ps)
RECURSIVE PathJoin(_, _)
PathJoin(path, ps) ==
    IF ps = <<>> THEN path
    ELSE LET b == Head(ps)
         IN  IF StartsWith(b, <<"/">>) THEN PathJoin(b, Tail(ps))
             ELSE IF path = <<>> \/ EndsWith(path, <<"/">>)
                  THEN PathJoin(path \o b, Tail(ps))
                  ELSE PathJoin(path \o <<"/">> \o b, Tail(ps))

db_path_to_user_path(db_path) ==
    PathJoin(FILE_SERVER_LOCATION, split_path(db_path))

\* no path has been converted
PathIdle ==
    /\ path_text = <<>>
    /\ tpc = "idle"
    /\ path_parts = <<>>
    /\ user_path = <<>>

----------------------------------------------------------------------------
(* Exceptions raised by the remote calls.  A FileMakerError carries the    *)
(* status code of the server and prints as                                 *)
(* "FileMaker Server returned error <code>, <message>"; any other          *)
(* exception (code 0 here) prints its message.                             *)

FMPrefix == <<"F","i","l","e","M","a","k","e","r"," ","S","e","r","v","e","r"," ",
              "r","e","t","u","r","n","e","d"," ","e","r","r","o","r"," ">>
Msg952 == <<"I","n","v","a","l","i","d"," ","t","o","k","e","n">>
Msg401 == <<"N","o"," ","r","e","c","o","r","d","s"," ","m","a","t","c","h"," ",
            "t","h","e"," ","r","e","q","u","e","s","t">>
Msg500 == <<"D","a","t","e"," ","v","a","l","u","e"," ","i","n","v","a","l","i","d">>
Msg1401 == <<"O","D","B","C"," ","f","a","i","l","u","r","e">>
MsgReq == <<"R","e","q","u","e","s","t"," ","e","r","r","o","r",":"," ",
            "/","r","e","c","o","r","d","s","/","9","5","2">>
Msg212 == <<"I","n","v","a","l","i","d"," ","a","c","c","o","u","n","t">>

Fault(code, msg) == [ok |-> FALSE, val |-> <<>>, code |-> code, msg |-> msg]
Ok(v) == [ok |-> TRUE, val |-> v, code |-> 0, msg |-> <<>>]

SessionExpired == Fault(952, Msg952)   \* the session token is no longer valid
NoMatch == Fault(401, Msg401)          \* no record satisfies the query
OpaqueFault == Fault(500, Msg500)      \* a fault of another code
Odbc1401 == Fault(1401, Msg1401)       \* another code, whose digits contain 401
RequestError == Fault(0, MsgReq)       \* not a FileMakerError; its text holds 952
LoginError == Fault(212, Msg212)       \* login() refused

\* str(e)
StrE(e) ==
    IF e.code = 0 THEN e.msg
    ELSE FMPrefix \o Digits(e.code) \o <<",", " ">> \o e.msg

----------------------------------------------------------------------------
(* ProjectChangingClerk._auto_relogin_fm                                   *)

\* `attempted >= self.auto_login_attempts`
BudgetExhausted(att) == att >= auto_login_attempts

\* `'952' in str(e)`
Has952(e) == Contains(StrE(e), <<"9","5","2">>)

\* a variant that looks for another code
Has401OtherCode(e) == Contains(StrE(e), <<"4","0","4">>)

\* `'401' in str(e)`
Has401(e) == Contains(StrE(e), <<"4","0","1">>)

Pending == [kind |-> "pending", val |-> <<>>, err |-> Ok(<<>>)]
Returned(v) == [kind |-> "value", val |-> v, err |-> Ok(<<>>)]
ReturnedNone == [kind |-> "none", val |-> <<>>, err |-> Ok(<<>>)]
Raised(e) == [kind |-> "raise", val |-> <<>>, err |-> e]

\* a variant of the except block that never re-raises what it caught
ExceptExitNeverRaising(e, att) ==
    IF Has401(e) THEN "none" ELSE "retry"

\* What the except block does with exception e once `attempted` was
\* incremented to att and, if login() is called, login() succeeded:
\* "raise", "none" (warn and return None) or "retry" (fall out of the except
\* block to the next iteration of `while True`).
ExceptExit(e, att) ==
    IF BudgetExhausted(att) THEN "raise"
    ELSE IF Has401(e) THEN "none"
    ELSE "raise"

\* whether the except block calls self.fm_server.login()
CallsLogin(e, att) == ~BudgetExhausted(att) /\ Has952(e)

\* entry of _auto_relogin_fm: attempted = 0
BeginInvoke ==
    /\ ipc' = "call"
    /\ attempted' = 0
    /\ caught' = Ok(<<>>)
    /\ iresult' = Pending
    /\ calls' = 0
    /\ logins' = 0
    /\ login_failed' = FALSE
    /\ warned' = 0
    /\ faults_seen' = <<>>

\* `return server_method(*args, **kwargs)` with the remote answer o
TryCall(o) ==
    /\ ipc = "call"
    /\ calls' = calls + 1
    /\ IF o.ok
       THEN /\ ipc' = "returned"
            /\ iresult' = Returned(o.val)
            /\ UNCHANGED <<caught, faults_seen>>
       ELSE /\ ipc' = "except"
            /\ caught' = o
            /\ faults_seen' = Append(faults_seen, o)
            /\ UNCHANGED iresult
    /\ UNCHANGED <<attempted, logins, login_failed, warned, session>>

\* the except block; login_ok is the answer of fm_server.login() if called
ExceptBlock(login_ok) ==
    /\ ipc = "except"
    /\ attempted' = attempted + 1
    /\ IF CallsLogin(caught, attempted')
       THEN /\ logins' = logins + 1
            /\ session' = login_ok
            /\ login_failed' = (login_failed \/ ~login_ok)
       ELSE UNCHANGED <<logins, session, login_failed>>
    /\ IF CallsLogin(caught, attempted') /\ ~login_ok
       THEN \* login() raised inside the except block: its exception propagates
            /\ ipc' = "raised"
            /\ iresult' = Raised(LoginError)
            /\ UNCHANGED warned
       ELSE CASE ExceptExit(caught, attempted') = "raise" ->
                    /\ ipc' = "raised"
                    /\ iresult' = Raised(caught)
                    /\ UNCHANGED warned
              [] ExceptExit(caught, attempted') = "none" ->
                    /\ ipc' = "returned"
                    /\ iresult' = ReturnedNone
                    /\ warned' = warned + 1
              [] OTHER ->
                    /\ ipc' = "call"
                    /\ UNCHANGED <<iresult, warned>>
    /\ UNCHANGED <<caught, calls, faults_seen>>

\* no call of _auto_relogin_fm was made yet
InvokeIdle ==
    /\ script = <<>>
    /\ ipc = "idle"
    /\ attempted = 0
    /\ caught = Ok(<<>>)
    /\ iresult = Pending
    /\ calls = 0
    /\ logins = 0
    /\ login_failed = FALSE
    /\ warned = 0
    /\ faults_seen = <<>>

----------------------------------------------------------------------------
(* ProjectChangingClerk.__init__                                           *)

ProbeAnswers == {"ok", "ConnectionError", "other"}

\* `self.fm_server.login()` inside the try of __init__
ClerkLogin ==
    /\ cpc = "new"
    /\ \E ok \in BOOLEAN :
         /\ ctor_login' = (IF ok THEN "ok" ELSE "failed")
         /\ session' = ok
         /\ cpc' = (IF ok THEN "ready" ELSE "probe_url")
    /\ UNCHANGED <<prog, ctor_error, url_probe, net_probe, auto_login_attempts,
                   invokeVars, batchVars, pmVars, pathVars>>

\* what __init__ does after requests.get(url, verify=False) answered r:
\* the position it goes to and the error it raises
AfterUrlProbe(r) ==
    CASE r = "ok" -> [pc |-> "ready", error |-> "none"]
      [] r = "ConnectionError" -> [pc |-> "probe_net", error |-> "none"]
      [] OTHER -> [pc |-> "failed", error |-> "propagated"]

\* `requests.get(url, verify=False)` in the except block of __init__
ClerkProbeUrl ==
    /\ cpc = "probe_url"
    /\ \E r \in ProbeAnswers :
         /\ url_probe' = r
         /\ cpc' = AfterUrlProbe(r).pc
         /\ ctor_error' = AfterUrlProbe(r).error
    /\ UNCHANGED <<prog, ctor_login, net_probe, session, auto_login_attempts,
                   invokeVars, batchVars, pmVars, pathVars>>

\* the error __init__ raises after requests.get("https://www.google.com")
\* answered r
AfterNetProbe(r) ==
    CASE r = "ok" -> "no_server"
      [] r = "ConnectionError" -> "no_internet"
      [] OTHER -> "propagated"

\* `requests.get("https://www.google.com")` and the raise that follows
ClerkProbeNet ==
    /\ cpc = "probe_net"
    /\ \E r \in ProbeAnswers :
         /\ net_probe' = r
         /\ cpc' = "failed"
         /\ ctor_error' = AfterNetProbe(r)
    /\ UNCHANGED <<prog, ctor_login, url_probe, session, auto_login_attempts,
                   invokeVars, batchVars, pmVars, pathVars>>

ClerkInit == ClerkLogin \/ ClerkProbeUrl \/ ClerkProbeNet

----------------------------------------------------------------------------
(* The data of the batch location sync.                                    *)

\* Python values: a str or an int, with the text str() gives
PyStr(s) == [t |-> "str", s |-> s]
PyInt(n) == [t |-> "int", s |-> Digits(n)]
PyNone == [t |-> "none", s |-> <<>>]
\* str(v): the text of a str, the digits of an int, "None" for None
Str(v) == IF v.t = "none" THEN <<"N", "o", "n", "e">> ELSE v.s

\* a call of a method of fm_server
Request(method, layout, field, query, record_id, field_data) ==
    [method |-> method, layout |-> layout, field |-> field, query |-> query,
     record_id |-> record_id, field_data |-> field_data]

NoFieldData == [Notes |-> <<>>, ID_ProjectManager |-> PyNone]
NoRequest == Request("none", "none", "none", {}, 0, NoFieldData)

\* ID_Primary of the Project held under each record handle (recordId)
PrimaryKeys == <<1, 12>>
RecordHandles == DOMAIN PrimaryKeys

OldLocation == <<"o","l","d">>

ProjectRecord(h, number) ==
    [present |-> TRUE, recordId |-> h, ID_Primary |-> PyInt(PrimaryKeys[h]),
     ProjectNumber |-> number, FileServerLocation |-> OldLocation,
     ProjectName |-> <<"P">>, Notes |-> <<"n">>,
     ID_ProjectManager |-> PyStr(<<>>)]

NoRecord(h) ==
    [present |-> FALSE, recordId |-> h, ID_Primary |-> PyInt(PrimaryKeys[h]),
     ProjectNumber |-> PyStr(<<>>), FileServerLocation |-> <<>>,
     ProjectName |-> <<>>, Notes |-> <<>>, ID_ProjectManager |-> PyStr(<<>>)]

RemoteNumbers ==
    {PyStr(<<"1">>), PyStr(<<"1", " ">>), PyStr(<<"1", "\r">>),
     PyStr(<<"1", "2">>)}

RemoteDatabases ==
    {db \in [RecordHandles ->
                {NoRecord(h) : h \in RecordHandles}
                    \cup {ProjectRecord(h, n) : h \in RecordHandles,
                                                n \in RemoteNumbers}] :
        \A h \in RecordHandles : db[h].recordId = h}

\* the rows the secondary database may hold: a number that is a clean
\* string, one with trailing whitespace, one that is an int; a relative
\* POSIX location and a Windows location
SourceRow(number, location) ==
    [number |-> number, file_server_location |-> location]
SourceRows ==
    {SourceRow(PyStr(<<"1">>), <<"a", "/", "b">>),
     SourceRow(PyStr(<<"1">>), <<"C", ":", "\\", "a">>),
     SourceRow(PyStr(<<"1", " ">>), <<"a", "/", "b">>),
     SourceRow(PyInt(1), <<"C", ":", "\\", "a">>)}

\* The find of the FileMaker Data API on one field: a record matches when
\* the text of its field begins with the text asked for.
FmMatches(value, query) ==
    Strip(query) # <<>> /\ StartsWith(Strip(Str(value)), Strip(query))

RECURSIVE FmFindFrom(_, _, _)
FmFindFrom(h, field, query) ==
    IF h \notin RecordHandles THEN <<>>
    ELSE (IF remote[h].present /\ FmMatches(remote[h][field], query)
          THEN <<remote[h]>> ELSE <<>>)
         \o FmFindFrom(h + 1, field, query)

\* fm_server.find(query=[{field: query}]): the found set, or error 401
FmFind(field, query) ==
    LET found == FmFindFrom(1, field, query)
    IN  IF found = <<>> THEN NoMatch ELSE Ok(found)

\* a variant in which the edit appends to the field instead of replacing it
EditedRemoteAppending(record_id, field, value) ==
    [remote EXCEPT ![record_id] = [@ EXCEPT ![field] = @ \o value]]

\* fm_server.edit_record(record_id, field_data) on the database
EditedRemote(record_id, field, value) ==
    [remote EXCEPT ![record_id] = [@ EXCEPT ![field] = value]]

Ops == {"find_number", "find_id", "edit"}

\* how the remote system may answer a call: as the database has it, with a
\* session-expired fault (the re-login succeeding or not), with an opaque
\* fault, with no-match, or (an edit) by reporting no success
AnswerKinds(o) ==
    IF o = "edit"
    THEN {"answer", "expired", "expired_nologin", "opaque", "refused"}
    ELSE {"answer", "expired", "expired_nologin", "opaque", "nomatch"}

FaultOf(k) ==
    CASE k \in {"expired", "expired_nologin"} -> SessionExpired
      [] k = "opaque" -> OpaqueFault
      [] k = "nomatch" -> NoMatch
      [] OTHER -> Ok(FALSE)

----------------------------------------------------------------------------
(* update_fmp_project_location.py, __main__                                *)

\* UpdateStatus.__init__
NewStatus ==
    [project_locations_updated |-> 0, projects_not_in_fmp |-> 0,
     projects_not_in_db |-> 0, multiple_projects_in_fmp |-> 0,
     ids_not_found_in_fmp |-> 0, projects_modified |-> <<>>]

\* proj_number = row['number'];  proj_db_location = row['file_server_location']
proj_number == rows[ridx].number
proj_db_location == rows[ridx].file_server_location

\* a variant that compares without stripping the remote key
ExactMatchesUnstripped(df, number) ==
    LET Keeps(rec) == PyStr(Str(rec.ProjectNumber)) = number
    IN  SelectSeq(df, Keeps)

\* fmp_proj_num_df[ProjectNumber].astype(str).str.strip(), then the rows of
\* fmp_proj_num_df whose ProjectNumber == proj_number
ExactMatches(df, number) ==
    LET Keeps(rec) == PyStr(Strip(Str(rec.ProjectNumber))) = number
    IN  SelectSeq(df, Keeps)

\* fmp_proj_num_row
fmp_proj_num_row == ExactMatches(fmp_proj_num_foundset.val, proj_number)

\* proj_id = fmp_proj_num_row[IDX_FIELD_NAME].iloc[0]
proj_id == fmp_proj_num_row[1].ID_Primary

\* `not foundset`: None is false, a Foundset object is true
NotFoundset(res) == res.kind # "value"

\* a variant that does not look at the number of records
IdNotConfirmedOnlyNone(res) == NotFoundset(res)

\* `not fmp_proj_id_foundset or len(fmp_proj_id_foundset.to_df()) > 1`
IdNotConfirmed(res) == NotFoundset(res) \/ Len(res.val) > 1

\* a variant that counts every edit call that returned
EditSucceededOnReturn(res) == res.kind # "raise"

\* `if updated:`
EditSucceeded(res) == res.kind = "value" /\ res.val = TRUE

\* the arguments of the edit: the first record of fmp_proj_id_foundset and
\* {PROJECT_LOCATION_FIELD: user_location}
\* a variant that takes the record handle from the answer to the query by
\* project number
EditRecordIdOfNumberQuery == fmp_proj_num_foundset.val[1].recordId

\* record_id = record[RECORD_ID_FIELD_NAME], record the first of the re-fetch
EditRecordId == fmp_proj_id_foundset.val[1].recordId
EditValue == db_path_to_user_path(proj_db_location)

\* what the wrapped remote method answers when the remote system is well
RemoteAnswer ==
    CASE op = "find_number" -> FmFind("ProjectNumber", Str(proj_number))
      [] op = "find_id" -> FmFind("ID_Primary", Str(proj_id))
      [] OTHER -> Ok(TRUE)

\* a variant that counts a row twice
BumpByTwo(field) == [status EXCEPT ![field] = @ + 2]

\* status.<field> += 1
Bump(field) == [status EXCEPT ![field] = @ + 1]

untouchedByBatch == <<prog, cpc, ctor_error, ctor_login, url_probe, net_probe,
                      auto_login_attempts, script, pmVars, pathVars>>

\* `continue`, or the end of the loop body: back to the `for`
NextIteration ==
    /\ bpc' = "loop"
    /\ ipc' = "idle"
    /\ UNCHANGED <<op, attempted, caught, iresult, calls, logins,
                   login_failed, warned, faults_seen, session>>

\* a variant in which an exception ends the loop
RowErrorEndsLoop ==
    /\ errors_logged' = errors_logged + 1
    /\ bpc' = "finished"
    /\ ipc' = "idle"
    /\ UNCHANGED <<op, attempted, caught, iresult, calls, logins,
                   login_failed, warned, faults_seen, session, status>>

\* `except Exception as e: logger.error(...); continue`
RowError ==
    /\ errors_logged' = errors_logged + 1
    /\ NextIteration
    /\ UNCHANGED status

\* clerk._auto_relogin_fm(self.fm_server.<o>, ...) is entered
BatchInvoke(o, pc) ==
    /\ bpc' = pc
    /\ op' = o
    /\ BeginInvoke
    /\ UNCHANGED session

\* the `for` takes the next row and queries the Projects by its number
BatchNextRow ==
    /\ prog = "batch" /\ bpc = "loop"
    /\ IF run = 1
       THEN /\ Len(rows) < MaxRows
            /\ \E row \in SourceRows : rows' = Append(rows, row)
       ELSE /\ ridx < Len(rows)
            /\ UNCHANGED rows
    /\ ridx' = ridx + 1
    /\ row_start' = [status |-> status, edits |-> Len(edits),
                     errors |-> errors_logged]
    /\ fmp_proj_num_foundset' = Pending
    /\ fmp_proj_id_foundset' = Pending
    /\ BatchInvoke("find_number", "number")
    /\ UNCHANGED <<untouchedByBatch, remote, status, edits, errors_logged, run,
                   fault_log, faults_used, first_run>>

\* the wrapped remote method is called and the remote system answers
BatchCall ==
    /\ prog = "batch" /\ ipc = "call"
    /\ \E k \in AnswerKinds(op) :
         /\ IF run = 1
            THEN /\ k = "answer" \/ faults_used < MaxFaults
                 /\ fault_log' = [fault_log EXCEPT ![<<ridx, op>>] = k]
                 /\ faults_used' = faults_used + (IF k = "answer" THEN 0 ELSE 1)
            ELSE /\ k = fault_log[<<ridx, op>>]
                 /\ UNCHANGED <<fault_log, faults_used>>
         /\ LET o == IF k = "answer" THEN RemoteAnswer ELSE FaultOf(k)
            IN  /\ TryCall(o)
                /\ IF op = "edit"
                   THEN /\ edits' = Append(edits,
                                [row |-> ridx, record_id |-> EditRecordId,
                                 field |-> "FileServerLocation",
                                 value |-> EditValue])
                        /\ remote' = IF k = "answer"
                                     THEN EditedRemote(EditRecordId,
                                              "FileServerLocation", EditValue)
                                     ELSE remote
                   ELSE UNCHANGED <<edits, remote>>
    /\ UNCHANGED <<untouchedByBatch, op, rows, ridx, bpc, status,
                   fmp_proj_num_foundset, fmp_proj_id_foundset, errors_logged,
                   row_start, run, first_run>>

\* the except block of _auto_relogin_fm
BatchExcept ==
    /\ prog = "batch"
    /\ ExceptBlock(fault_log[<<ridx, op>>] # "expired_nologin")
    /\ UNCHANGED <<untouchedByBatch, batchVars>>

\* lines 270-293: the answer to the query by project number
BatchAfterNumber ==
    /\ prog = "batch" /\ bpc = "number" /\ ipc \in {"returned", "raised"}
    /\ fmp_proj_num_foundset' = iresult
    /\ IF iresult.kind = "raise" THEN RowError
       ELSE IF NotFoundset(iresult)
       THEN /\ status' = Bump("projects_not_in_fmp")
            /\ NextIteration
            /\ UNCHANGED errors_logged
       ELSE IF ExactMatches(iresult.val, proj_number) = <<>>
       THEN /\ status' = Bump("projects_not_in_fmp")
            /\ NextIteration
            /\ UNCHANGED errors_logged
       ELSE IF Len(ExactMatches(iresult.val, proj_number)) > 1
       THEN /\ status' = Bump("multiple_projects_in_fmp")
            /\ NextIteration
            /\ UNCHANGED errors_logged
       ELSE /\ BatchInvoke("find_id", "id")
            /\ UNCHANGED <<status, errors_logged>>
    /\ UNCHANGED <<untouchedByBatch, remote, rows, ridx, fmp_proj_id_foundset,
                   edits, row_start, run, fault_log, faults_used, first_run>>

\* lines 293-305: the answer to the query by ID_Primary
BatchAfterId ==
    /\ prog = "batch" /\ bpc = "id" /\ ipc \in {"returned", "raised"}
    /\ fmp_proj_id_foundset' = iresult
    /\ IF iresult.kind = "raise" THEN RowError
       ELSE IF IdNotConfirmed(iresult)
       THEN /\ status' = Bump("ids_not_found_in_fmp")
            /\ NextIteration
            /\ UNCHANGED errors_logged
       ELSE /\ BatchInvoke("edit", "edit")
            /\ UNCHANGED <<status, errors_logged>>
    /\ UNCHANGED <<untouchedByBatch, remote, rows, ridx, fmp_proj_num_foundset,
                   edits, row_start, run, fault_log, faults_used, first_run>>

\* lines 305-309: the answer to the edit
BatchAfterEdit ==
    /\ prog = "batch" /\ bpc = "edit" /\ ipc \in {"returned", "raised"}
    /\ IF iresult.kind = "raise" THEN RowError
       ELSE /\ status' = IF EditSucceeded(iresult)
                         THEN [status EXCEPT
                                 !.project_locations_updated = @ + 1,
                                 !.projects_modified = Append(@, proj_number)]
                         ELSE status
            /\ NextIteration
            /\ UNCHANGED errors_logged
    /\ UNCHANGED <<untouchedByBatch, remote, rows, ridx, fmp_proj_num_foundset,
                   fmp_proj_id_foundset, edits, row_start, run, fault_log,
                   faults_used, first_run>>

\* the `for` is exhausted: the summary is logged
BatchEndLoop ==
    /\ prog = "batch" /\ bpc = "loop"
    /\ run = 1 \/ ridx = Len(rows)
    /\ bpc' = "finished"
    /\ UNCHANGED <<untouchedByBatch, session, invokeVars, op, remote, rows, ridx,
                   status, fmp_proj_num_foundset, fmp_proj_id_foundset, edits,
                   errors_logged, row_start, run, fault_log, faults_used,
                   first_run>>

\* the script is run again: a new clerk and a new UpdateStatus, the same
\* rows in the secondary database, the remote state as the first run left
\* it and the remote system answering each call as it did in the first run
BatchRerun ==
    /\ prog = "batch" /\ bpc = "finished" /\ run = 1
    /\ first_run' = [status |-> status, remote |-> remote, edits |-> edits]
    /\ run' = 2
    /\ status' = NewStatus
    /\ edits' = <<>>
    /\ errors_logged' = 0
    /\ ridx' = 0
    /\ bpc' = "loop"
    /\ session' = TRUE
    /\ row_start' = [status |-> NewStatus, edits |-> 0, errors |-> 0]
    /\ UNCHANGED <<untouchedByBatch, invokeVars, op, remote, rows,
                   fmp_proj_num_foundset, fmp_proj_id_foundset, fault_log,
                   faults_used>>

\* the batch loop has not started
BatchLocalsIdle ==
    /\ op = "none"
    /\ rows = <<>>
    /\ ridx = 0
    /\ bpc = "loop"
    /\ status = NewStatus
    /\ fmp_proj_num_foundset = Pending
    /\ fmp_proj_id_foundset = Pending
    /\ edits = <<>>
    /\ errors_logged = 0
    /\ row_start = [status |-> NewStatus, edits |-> 0, errors |-> 0]
    /\ run = 1
    /\ fault_log = [c \in (1..MaxRows) \X Ops |-> "answer"]
    /\ faults_used = 0

\* the batch program is not run and the remote system holds no Project
BatchIdle ==
    /\ BatchLocalsIdle
    /\ remote = [h \in RecordHandles |-> NoRecord(h)]
    /\ first_run = [status |-> NewStatus, remote |-> remote, edits |-> <<>>]

\* the interactive program is not running
PmIdle ==
    /\ people = <<>>
    /\ ppc = "idle"
    /\ project_to_change = ReturnedNone
    /\ target_pm = ReturnedNone
    /\ project_foundset_df = <<>>
    /\ pm_choices_df = <<>>
    /\ old_pm_name = PyNone
    /\ note_line = <<>>
    /\ request = NoRequest
    /\ answer_kind = "answer"
    /\ pm_edits = <<>>
    /\ changes = 0

\* the state after `clerk = ProjectChangingClerk(url)` and
\* `status = UpdateStatus()`
InitBatch ==
    /\ prog = "batch"
    /\ cpc = "ready" /\ ctor_error = "none" /\ ctor_login = "ok"
    /\ url_probe = "none" /\ net_probe = "none"
    /\ session = TRUE
    /\ auto_login_attempts = DefaultAttempts
    /\ InvokeIdle
    /\ op = "none"
    /\ remote \in RemoteDatabases
    /\ rows = <<>>
    /\ ridx = 0
    /\ bpc = "loop"
    /\ status = NewStatus
    /\ fmp_proj_num_foundset = Pending
    /\ fmp_proj_id_foundset = Pending
    /\ edits = <<>>
    /\ errors_logged = 0
    /\ row_start = [status |-> NewStatus, edits |-> 0, errors |-> 0]
    /\ run = 1
    /\ fault_log = [c \in (1..MaxRows) \X Ops |-> "answer"]
    /\ faults_used = 0
    /\ first_run = [status |-> NewStatus, remote |-> remote, edits |-> <<>>]
    /\ PmIdle
    /\ PathIdle

NextBatch ==
    \/ BatchNextRow
    \/ BatchCall
    \/ BatchExcept
    \/ BatchAfterNumber
    \/ BatchAfterId
    \/ BatchAfterEdit
    \/ BatchEndLoop
    \/ BatchRerun

SpecBatch == InitBatch /\ [][NextBatch]_vars

----------------------------------------------------------------------------
(* change_project_pm.py: the data of the interactive manager change.       *)

\* str.isdigit()
\* the characters below code point 256 that are digits to str.isdigit()
\* without being decimal digits: superscript two, three and one
SuperscriptDigits == {"²", "³", "¹"}

IsDecimalChar(c) == \E d \in DOMAIN DigitChar : DigitChar[d] = c

\* s.isdigit()
IsDigit(s) ==
    s # <<>> /\ \A i \in DOMAIN s :
                  IsDecimalChar(s[i]) \/ s[i] \in SuperscriptDigits

\* int(s) of a string that passed isdigit() raises ValueError
IntRaises(s) == \E i \in DOMAIN s : s[i] \in SuperscriptDigits

\* int(s) of a string of decimal digits
RECURSIVE IntOf(_)
IntOf(s) ==
    IF s = <<>> THEN 0
    ELSE 10 * IntOf(SubSeq(s, 1, Len(s) - 1))
         + ((CHOOSE d \in DOMAIN DigitChar : DigitChar[d] = s[Len(s)]) - 1)

\* the truth value Python gives a field value
Truthy(v) ==
    CASE v.t = "none" -> FALSE
      [] v.t = "int" -> IntOf(v.s) # 0
      [] OTHER -> v.s # <<>>

\* self.project_lookback_num
project_lookback_num == 100

\* a row of PEOPLE_LAYOUT
Person(h, id, first, last, active) ==
    [recordId |-> h, ID_Primary |-> PyInt(id), NameFirst |-> first,
     NameLast |-> last, Active_c |-> active]

\* the people tables explored: two persons; a person with an inactive and an
\* active row, the inactive one returned first; a table without person 1
PeopleTables ==
    {<<Person(1, 1, <<"A">>, <<"B">>, 1), Person(2, 2, <<"C">>, <<"D">>, 1)>>,
     <<Person(1, 1, <<"A">>, <<"B">>, 0), Person(2, 1, <<"A">>, <<"Z">>, 1),
       Person(3, 2, <<"C">>, <<"D">>, 1)>>,
     <<Person(1, 2, <<"C">>, <<"D">>, 1)>>}

\* a Project with its notes and its manager reference
PmProject(h, number, notes, pm) ==
    [ProjectRecord(h, number) EXCEPT !.Notes = notes, !.ID_ProjectManager = pm]

NotesTexts == {<<>>, <<"n">>}
ManagerRefs == {PyStr(<<>>), PyInt(1), PyInt(2)}

\* the project tables explored: under handle 1 no record or project "1" with
\* or without notes and manager; under handle 2 no record, a second project
\* "1" or project "12"
PmDatabases ==
    {db \in [RecordHandles ->
                {NoRecord(h) : h \in RecordHandles}
                    \cup {PmProject(1, PyStr(<<"1">>), n, m) :
                              n \in NotesTexts, m \in ManagerRefs}
                    \cup {PmProject(2, PyStr(<<"1">>), <<>>, PyInt(2)),
                          PmProject(2, PyStr(<<"1", "2">>), <<>>, PyInt(2))}] :
        \A h \in RecordHandles : db[h].recordId = h}

\* what the operator types at the prompts
TypedNumbers == {<<"1">>, <<"1", "2">>, <<"7">>}
TypedIndexes == {<<"0">>, <<"1">>, <<"x">>, <<"²">>}
TypedPmIds == {<<"1">>, <<"2">>, <<"9">>}

\* datetime.now()
Times ==
    {[Y |-> 2024, M |-> 1, D |-> 5, h |-> 9, m |-> 30, s |-> 7],
     [Y |-> 2024, M |-> 11, D |-> 25, h |-> 14, m |-> 0, s |-> 59]}

\* a number zero-padded to two digits
Pad2(n) == IF n < 10 THEN <<"0">> \o Digits(n) ELSE Digits(n)

\* a variant that does not pad the fields of the stamp
strftimeUnpadded(now) ==
    Digits(now.Y) \o <<"-">> \o Digits(now.M) \o <<"-">> \o Digits(now.D)
        \o <<" ">> \o Digits(now.h) \o <<":">> \o Digits(now.m)
        \o <<":">> \o Digits(now.s)

\* now.strftime("%Y-%m-%d %H:%M:%S")
strftime(now) ==
    Digits(now.Y) \o <<"-">> \o Pad2(now.M) \o <<"-">> \o Pad2(now.D)
        \o <<" ">> \o Pad2(now.h) \o <<":">> \o Pad2(now.m)
        \o <<":">> \o Pad2(now.s)

\* PmChangeService._generate_notes_str, evaluated at `now`
generate_notes_str(old_name, new_pm_name, now) ==
    LET change_str ==
            IF Truthy(old_name)
            THEN <<"c","h","a","n","g","e","d"," ","f","r","o","m"," ">>
                     \o old_name.s \o <<" ","t","o">>
            ELSE <<"s","e","t"," ","t","o">>
    IN  <<"P","r","o","j","e","c","t"," ","P","M"," ">> \o change_str
            \o <<" ">> \o new_pm_name
            \o <<" ","o","n"," ">> \o strftime(now)

\* f"{pm[PEOPLE_FIRST_NAME_FIELD]} {pm[PEOPLE_LAST_NAME_FIELD]}"
FullName(pm) == pm.NameFirst \o <<" ">> \o pm.NameLast

\* lines 319-320: `if proj_notes: new_notes = proj_notes + "\n" + new_notes`
NewNotes(proj_notes, line) ==
    IF proj_notes # <<>> THEN proj_notes \o <<"\n">> \o line ELSE line

FindProjects(field, text) ==
    Request("find", "projects_table", field, {text}, 0, NoFieldData)
FindPeople(texts) ==
    Request("find", "people_table", "ID_Primary", texts, 0, NoFieldData)
GetRecords ==
    Request("get_records", "projects_table", "ID_Primary", {}, 0, NoFieldData)
EditRecord(record_id, field_data) ==
    Request("edit_record", "projects_table", "none", {}, record_id, field_data)

\* the records of the projects table, by descending ID_Primary
RECURSIVE SortDescend(_)
SortDescend(recs) ==
    IF recs = <<>> THEN <<>>
    ELSE LET i == CHOOSE i \in DOMAIN recs :
                     \A j \in DOMAIN recs :
                         IntOf(recs[j].ID_Primary.s) <= IntOf(recs[i].ID_Primary.s)
         IN  <<recs[i]>>
                 \o SortDescend(SubSeq(recs, 1, i - 1)
                                    \o SubSeq(recs, i + 1, Len(recs)))

\* fm_server.get_records(limit=n, sort=[ID_Primary descend])
RecentProjects(n) ==
    LET Present(rec) == rec.present
        sorted == SortDescend(SelectSeq([h \in RecordHandles |-> remote[h]],
                                        Present))
    IN  SubSeq(sorted, 1, IF n < Len(sorted) THEN n ELSE Len(sorted))

\* fm_server.find(query=[{ID_Primary: q}, ...], request_layout=PEOPLE_LAYOUT)
PeopleFound(texts) ==
    LET Hit(row) == \E q \in texts : FmMatches(row.ID_Primary, q)
    IN  SelectSeq(people, Hit)

\* what the remote system may answer to a request when it is well; a find
\* without any criterion is refused, with no-match or with another fault
RemoteAnswers(req) ==
    CASE req.method = "find" /\ req.layout = "projects_table" ->
             {FmFind(req.field, CHOOSE q \in req.query : TRUE)}
      [] req.method = "find" /\ req.layout = "people_table" ->
             IF req.query = {} THEN {NoMatch, OpaqueFault}
             ELSE IF PeopleFound(req.query) = <<>> THEN {NoMatch}
             ELSE {Ok(PeopleFound(req.query))}
      [] req.method = "get_records" ->
             {Ok(RecentProjects(project_lookback_num))}
      [] OTHER -> {Ok(TRUE)}

\* fm_server.edit_record(record_id, field_data) on the projects table
EditedProject(record_id, field_data) ==
    [remote EXCEPT ![record_id] =
        [@ EXCEPT !.Notes = field_data.Notes,
                  !.ID_ProjectManager = field_data.ID_ProjectManager]]

\* recent_projects_df[PROJECT_PM_ID_FIELD].dropna().astype(str).unique() and
\* [{IDX_FIELD_NAME: int(pm_id)} for pm_id in recent_pm_ids if pm_id]
recent_pm_query(recent_projects) ==
    {Digits(IntOf(Str(recent_projects[i].ID_ProjectManager))) :
        i \in {j \in DOMAIN recent_projects :
                  /\ recent_projects[j].ID_ProjectManager.t # "none"
                  /\ Str(recent_projects[j].ID_ProjectManager) # <<>>}}

\* a variant that sorts Active_c ascending
SortsBeforeActiveAscending(a, b) ==
    \/ IntOf(a.ID_Primary.s) < IntOf(b.ID_Primary.s)
    \/ /\ IntOf(a.ID_Primary.s) = IntOf(b.ID_Primary.s)
       /\ a.Active_c < b.Active_c

\* the order of sort_values([ID_Primary, Active_c], ascending=[True, False])
SortsBefore(a, b) ==
    \/ IntOf(a.ID_Primary.s) < IntOf(b.ID_Primary.s)
    \/ /\ IntOf(a.ID_Primary.s) = IntOf(b.ID_Primary.s)
       /\ a.Active_c > b.Active_c

\* sort_values: a stable sort
RECURSIVE SortPeople(_)
SortPeople(rs) ==
    IF rs = <<>> THEN <<>>
    ELSE LET rest == SortPeople(Tail(rs))
             k == Cardinality({i \in DOMAIN rest : SortsBefore(rest[i], Head(rs))})
         IN  SubSeq(rest, 1, k) \o <<Head(rs)>> \o SubSeq(rest, k + 1, Len(rest))

\* drop_duplicates(subset=IDX_FIELD_NAME): the first row of each key is kept
RECURSIVE DropDuplicates(_)
DropDuplicates(rs) ==
    IF rs = <<>> THEN <<>>
    ELSE LET front == SubSeq(rs, 1, Len(rs) - 1)
             last == rs[Len(rs)]
         IN  IF \E i \in DOMAIN front : front[i].ID_Primary = last.ID_Primary
             THEN DropDuplicates(front)
             ELSE Append(DropDuplicates(front), last)

\* lines 137-142 of get_most_recent_pms: sort, drop the duplicates, keep the
\* columns ID_Primary, NameFirst and NameLast
recent_pm_df(found) ==
    LET kept == DropDuplicates(SortPeople(found))
    IN  [i \in DOMAIN kept |->
            [ID_Primary |-> kept[i].ID_Primary, NameFirst |-> kept[i].NameFirst,
             NameLast |-> kept[i].NameLast]]

\* the characters of a name, in the order of their code points
CodeOrder ==
    <<" ", ",",
      "A","B","C","D","E","F","G","H","I","J","K","L","M","N","O","P","Q","R",
      "S","T","U","V","W","X","Y","Z",
      "a","b","c","d","e","f","g","h","i","j","k","l","m","n","o","p","q","r",
      "s","t","u","v","w","x","y","z">>

Ord(c) == CHOOSE i \in DOMAIN CodeOrder : CodeOrder[i] = c

\* a < b of two strings
RECURSIVE StrLess(_, _)
StrLess(a, b) ==
    IF b = <<>> THEN FALSE
    ELSE IF a = <<>> THEN TRUE
    ELSE IF Head(a) = Head(b) THEN StrLess(Tail(a), Tail(b))
    ELSE Ord(Head(a)) < Ord(Head(b))

\* combine_names: f"{row[NameLast]}, {row[NameFirst]}"
combine_names(row) == row.NameLast \o <<",", " ">> \o row.NameFirst

\* pm_choices_df["Name"] = pm_choices_df.apply(combine_names, axis=1)
WithName(df) ==
    [i \in DOMAIN df |->
        [ID_Primary |-> df[i].ID_Primary, NameFirst |-> df[i].NameFirst,
         NameLast |-> df[i].NameLast, Name |-> combine_names(df[i])]]

\* sort_values("Name").reset_index(drop=True); rows of equal Name keep
\* their order
RECURSIVE SortByName(_)
SortByName(rs) ==
    IF rs = <<>> THEN <<>>
    ELSE LET rest == SortByName(Tail(rs))
             k == Cardinality({i \in DOMAIN rest :
                                  StrLess(rest[i].Name, Head(rs).Name)})
         IN  SubSeq(rest, 1, k) \o <<Head(rs)>> \o SubSeq(rest, k + 1, Len(rest))

\* the table of elicit_new_pm at its prompt
named_pm_choices(found) == SortByName(WithName(recent_pm_df(found)))

\* `pm_idx in pm_choices_df[IDX_FIELD_NAME].astype(str).values`
IsChoice(df, typed) == \E i \in DOMAIN df : Str(df[i].ID_Primary) = typed

\* `type(e) == fmrest.exceptions.FileMakerError`
IsFileMakerError(e) == e.code # 0

----------------------------------------------------------------------------
(* change_project_pm.py: PmChangeService and __main__                      *)

\* the state the interactive program leaves alone
untouchedByPm == <<prog, cpc, ctor_error, ctor_login, url_probe, net_probe,
                   auto_login_attempts, script, rows, ridx, bpc, status,
                   fmp_proj_num_foundset, fmp_proj_id_foundset, edits,
                   errors_logged, row_start, run, fault_log, first_run, people,
                   path_text, tpc, path_parts, user_path>>

\* the locals and fields of the service
pmLocals == <<project_to_change, target_pm, project_foundset_df, pm_choices_df,
              old_pm_name, note_line, pm_edits, changes>>

\* no call of _auto_relogin_fm is entered or left
NoInvoke ==
    UNCHANGED <<session, ipc, attempted, caught, iresult, calls, logins,
                login_failed, warned, faults_seen, op, request, answer_kind,
                remote, faults_used>>

\* self.clerk._auto_relogin_fm(self.fm_server.<method>, ...) is entered
PmInvoke(req, pc) ==
    /\ ppc' = pc
    /\ op' = req.method
    /\ request' = req
    /\ BeginInvoke
    /\ UNCHANGED <<session, answer_kind, remote, faults_used>>

\* the position after a call of _auto_relogin_fm, no call pending
PmGoto(pc) ==
    /\ ppc' = pc
    /\ ipc' = "idle"
    /\ UNCHANGED <<session, attempted, caught, iresult, calls, logins,
                   login_failed, warned, faults_seen, op, request, answer_kind,
                   remote, faults_used>>

\* an exception reaches the top of __main__: the program ends
PmCrash == PmGoto("crashed")

\* the call of _auto_relogin_fm the program waits for at pc has ended
PmAnswered(pc) == prog = "pm" /\ ppc = pc /\ ipc \in {"returned", "raised"}

\* how the remote system may answer a call of the interactive program
PmAnswerKinds(o) ==
    IF o = "find"
    THEN {"answer", "expired", "expired_nologin", "opaque", "nomatch", "request"}
    ELSE {"answer", "expired", "expired_nologin", "opaque", "request"}

PmFaultOf(k) == IF k = "request" THEN RequestError ELSE FaultOf(k)

\* the wrapped remote method is called and the remote system answers
PmCall ==
    /\ prog = "pm" /\ ipc = "call"
    /\ \E k \in PmAnswerKinds(op) :
         /\ k = "answer" \/ faults_used < MaxFaults
         /\ answer_kind' = k
         /\ faults_used' = faults_used + (IF k = "answer" THEN 0 ELSE 1)
         /\ \E o \in (IF k = "answer" THEN RemoteAnswers(request)
                      ELSE {PmFaultOf(k)}) :
              TryCall(o)
         /\ IF op = "edit_record"
            THEN /\ pm_edits' = Append(pm_edits,
                        [record_id |-> request.record_id,
                         field_data |-> request.field_data,
                         prior |-> remote[request.record_id].Notes,
                         prior_manager |->
                             remote[request.record_id].ID_ProjectManager,
                         applied |-> (k = "answer")])
                 /\ remote' = IF k = "answer"
                              THEN EditedProject(request.record_id,
                                                 request.field_data)
                              ELSE remote
            ELSE UNCHANGED <<pm_edits, remote>>
    /\ UNCHANGED <<untouchedByPm, op, request, ppc, project_to_change, target_pm,
                   project_foundset_df, pm_choices_df, old_pm_name, note_line,
                   changes>>

\* the except block of _auto_relogin_fm
PmExcept ==
    /\ prog = "pm"
    /\ ExceptBlock(answer_kind # "expired_nologin")
    /\ UNCHANGED <<untouchedByPm, pmLocals, ppc, op, request, answer_kind,
                   remote, faults_used>>

\* a variant in which the loop of __main__ goes on after sys.exit()
PmChangeAfterExit ==
    /\ prog = "pm" /\ ppc \in {"idle", "changed", "exited"}
    /\ changes < MaxChanges
    /\ ppc' = IF project_to_change.kind = "none" \/ ppc = "exited"
              THEN "ask_number"
              ELSE "have_project"
    /\ project_foundset_df' =
         IF project_to_change.kind = "none" \/ ppc = "exited" THEN <<>>
         ELSE project_foundset_df
    /\ NoInvoke
    /\ UNCHANGED <<untouchedByPm, project_to_change, target_pm, pm_choices_df,
                   old_pm_name, note_line, pm_edits, changes>>

\* change_project_pm is called: on the service __main__ has just built, or
\* once more on a service whose earlier call returned.  Without a held
\* project elicit_project_to_change is entered, whose line 220 sets
\* project_foundset_df = None
PmChange ==
    /\ prog = "pm" /\ ppc \in {"idle", "changed"}
    /\ changes < MaxChanges
    /\ ppc' = IF project_to_change.kind = "none" THEN "ask_number"
              ELSE "have_project"
    /\ project_foundset_df' =
         IF project_to_change.kind = "none" THEN <<>> ELSE project_foundset_df
    /\ NoInvoke
    /\ UNCHANGED <<untouchedByPm, project_to_change, target_pm, pm_choices_df,
                   old_pm_name, note_line, pm_edits, changes>>

\* KeyboardInterrupt at a prompt: _ask prints and calls sys.exit()
PmInterrupt ==
    /\ prog = "pm" /\ ppc \in {"ask_number", "ask_index", "ask_pm"}
    /\ ppc' = "exited"
    /\ NoInvoke
    /\ UNCHANGED <<untouchedByPm, pmLocals>>

\* lines 223-224: the operator enters a project number
PmAskNumber ==
    /\ prog = "pm" /\ ppc = "ask_number"
    /\ \E project_number \in TypedNumbers :
         PmInvoke(FindProjects("ProjectNumber", project_number), "find_number")
    /\ UNCHANGED <<untouchedByPm, pmLocals>>

\* get_project_by_idx(project_idx) is called (line 267)
PmGetProject(project_idx) ==
    PmInvoke(FindProjects("ID_Primary", Str(project_idx)), "get_project")

\* lines 109-115 and 225-265: the answer to the query by project number
PmAfterFindNumber ==
    /\ PmAnswered("find_number")
    /\ IF iresult.kind = "raise"
       THEN /\ IF IsFileMakerError(iresult.err) THEN PmGoto("ask_number")
               ELSE PmCrash
            /\ UNCHANGED project_foundset_df
       ELSE IF iresult.kind = "none" \/ iresult.val = <<>>
       THEN /\ PmGoto("ask_number")
            /\ project_foundset_df' = <<>>
       ELSE /\ project_foundset_df' = iresult.val
            /\ IF Len(iresult.val) > 1 THEN PmGoto("ask_index")
               ELSE PmGetProject(iresult.val[1].ID_Primary)
    /\ UNCHANGED <<untouchedByPm, project_to_change, target_pm, pm_choices_df,
                   old_pm_name, note_line, pm_edits, changes>>

\* lines 256-263: the operator enters the index of a row of the table
PmAskIndex ==
    /\ prog = "pm" /\ ppc = "ask_index"
    /\ \E user_table_idx \in TypedIndexes :
         IF IsDigit(user_table_idx) /\ IntRaises(user_table_idx)
         THEN \* int(user_table_idx) raises ValueError, which nothing catches
              PmCrash
         ELSE IF IsDigit(user_table_idx)
                 /\ IntOf(user_table_idx) + 1 \in DOMAIN project_foundset_df
         THEN PmGetProject(
                  project_foundset_df[IntOf(user_table_idx) + 1].ID_Primary)
         ELSE /\ UNCHANGED ppc
              /\ NoInvoke
    /\ UNCHANGED <<untouchedByPm, pmLocals>>

\* lines 117-122 and 267-268, then line 296
PmAfterGetProject ==
    /\ PmAnswered("get_project")
    /\ IF iresult.kind = "raise"
       THEN PmCrash /\ UNCHANGED project_to_change
       ELSE IF iresult.kind = "none"
       THEN PmCrash /\ project_to_change' = ReturnedNone
       ELSE /\ PmGoto("have_project")
            /\ project_to_change' = Returned(iresult.val[1])
    /\ UNCHANGED <<untouchedByPm, target_pm, project_foundset_df, pm_choices_df,
                   old_pm_name, note_line, pm_edits, changes>>

\* lines 299-307: the previous manager is looked up, if there is one
PmOldPm ==
    /\ prog = "pm" /\ ppc = "have_project"
    /\ IF Truthy(project_to_change.val.ID_ProjectManager)
       THEN /\ PmInvoke(FindPeople(
                   {Str(project_to_change.val.ID_ProjectManager)}), "old_pm")
            /\ UNCHANGED old_pm_name
       ELSE /\ PmGoto("have_old_pm")
            /\ old_pm_name' = PyNone
    /\ UNCHANGED <<untouchedByPm, project_to_change, target_pm,
                   project_foundset_df, pm_choices_df, note_line, pm_edits,
                   changes>>

\* lines 144-151 and 302-303
PmAfterOldPm ==
    /\ PmAnswered("old_pm")
    /\ IF iresult.kind # "value"
       THEN PmCrash /\ UNCHANGED old_pm_name
       ELSE /\ PmGoto("have_old_pm")
            /\ old_pm_name' = PyStr(FullName(iresult.val[1]))
    /\ UNCHANGED <<untouchedByPm, project_to_change, target_pm,
                   project_foundset_df, pm_choices_df, note_line, pm_edits,
                   changes>>

\* lines 310-313 and 129-130: the recent projects are asked for, unless the
\* service already holds a target manager
PmNewPm ==
    /\ prog = "pm" /\ ppc = "have_old_pm"
    /\ IF target_pm.kind = "none" THEN PmInvoke(GetRecords, "recent_projects")
       ELSE PmGoto("ready")
    /\ UNCHANGED <<untouchedByPm, pmLocals>>

\* lines 131-134: the managers of the recent projects are asked for
PmAfterRecentProjects ==
    /\ PmAnswered("recent_projects")
    /\ IF iresult.kind # "value" THEN PmCrash
       ELSE PmInvoke(FindPeople(recent_pm_query(iresult.val)), "recent_pms")
    /\ UNCHANGED <<untouchedByPm, pmLocals>>

\* lines 135-142 and 273-282: the table of choices; the order in which the
\* table is displayed has no effect on what follows
PmAfterRecentPms ==
    /\ PmAnswered("recent_pms")
    /\ IF iresult.kind # "value"
       THEN PmCrash /\ UNCHANGED pm_choices_df
       ELSE /\ PmGoto("ask_pm")
            /\ pm_choices_df' = named_pm_choices(iresult.val)
    /\ UNCHANGED <<untouchedByPm, project_to_change, target_pm,
                   project_foundset_df, old_pm_name, note_line, pm_edits,
                   changes>>

\* lines 284-288: the operator enters the id of the new manager
PmAskPm ==
    /\ prog = "pm" /\ ppc = "ask_pm"
    /\ \E pm_idx \in TypedPmIds :
         IF IsChoice(pm_choices_df, pm_idx)
         THEN PmInvoke(FindPeople({pm_idx}), "new_pm")
         ELSE /\ UNCHANGED ppc
              /\ NoInvoke
    /\ UNCHANGED <<untouchedByPm, pmLocals>>

\* lines 144-151 and 288-289
PmAfterNewPm ==
    /\ PmAnswered("new_pm")
    /\ IF iresult.kind # "value"
       THEN PmCrash /\ UNCHANGED target_pm
       ELSE /\ PmGoto("ready")
            /\ target_pm' = Returned(iresult.val[1])
    /\ UNCHANGED <<untouchedByPm, project_to_change, project_foundset_df,
                   pm_choices_df, old_pm_name, note_line, pm_edits, changes>>

\* lines 316-322: the notes are composed and the edit is sent
PmEdit ==
    /\ prog = "pm" /\ ppc = "ready"
    /\ \E now \in Times :
         LET proj_notes == project_to_change.val.Notes
             line == generate_notes_str(old_pm_name, FullName(target_pm.val),
                                        now)
             changes_dict ==
                 [Notes |-> NewNotes(proj_notes, line),
                  ID_ProjectManager |-> target_pm.val.ID_Primary]
         IN  /\ note_line' = line
             /\ PmInvoke(EditRecord(project_to_change.val.recordId,
                                    changes_dict), "editing")
    /\ UNCHANGED <<untouchedByPm, project_to_change, target_pm,
                   project_foundset_df, pm_choices_df, old_pm_name, pm_edits,
                   changes>>

\* lines 322-327: the completion text is printed and edit_results returned
PmAfterEdit ==
    /\ PmAnswered("editing")
    /\ IF iresult.kind = "raise"
       THEN PmCrash /\ UNCHANGED changes
       ELSE /\ PmGoto("changed")
            /\ changes' = changes + 1
    /\ UNCHANGED <<untouchedByPm, project_to_change, target_pm,
                   project_foundset_df, pm_choices_df, old_pm_name, note_line,
                   pm_edits>>

\* lines 332-336: the loop of __main__ builds a new service
PmNewService ==
    /\ prog = "pm" /\ ppc = "changed"
    /\ ppc' = "idle"
    /\ project_to_change' = ReturnedNone
    /\ target_pm' = ReturnedNone
    /\ session' = TRUE
    /\ UNCHANGED <<untouchedByPm, ipc, attempted, caught, iresult, calls, logins,
                   login_failed, warned, faults_seen, op, request, answer_kind,
                   remote, faults_used, project_foundset_df, pm_choices_df,
                   old_pm_name, note_line, pm_edits, changes>>

\* the state after `service = PmChangeService(fmp_server_url)`
InitPm ==
    /\ prog = "pm"
    /\ cpc = "ready" /\ ctor_error = "none" /\ ctor_login = "ok"
    /\ url_probe = "none" /\ net_probe = "none"
    /\ session = TRUE
    /\ auto_login_attempts = DefaultAttempts
    /\ InvokeIdle
    /\ op = "none"
    /\ remote \in PmDatabases
    /\ rows = <<>>
    /\ ridx = 0
    /\ bpc = "loop"
    /\ status = NewStatus
    /\ fmp_proj_num_foundset = Pending
    /\ fmp_proj_id_foundset = Pending
    /\ edits = <<>>
    /\ errors_logged = 0
    /\ row_start = [status |-> NewStatus, edits |-> 0, errors |-> 0]
    /\ run = 1
    /\ fault_log = [c \in (1..MaxRows) \X Ops |-> "answer"]
    /\ faults_used = 0
    /\ first_run = [status |-> NewStatus, remote |-> remote, edits |-> <<>>]
    /\ people \in PeopleTables
    /\ ppc = "idle"
    /\ project_to_change = ReturnedNone
    /\ target_pm = ReturnedNone
    /\ project_foundset_df = <<>>
    /\ pm_choices_df = <<>>
    /\ old_pm_name = PyNone
    /\ note_line = <<>>
    /\ request = NoRequest
    /\ answer_kind = "answer"
    /\ pm_edits = <<>>
    /\ changes = 0
    /\ PathIdle

NextPm ==
    \/ PmChange
    \/ PmInterrupt
    \/ PmAskNumber
    \/ PmCall
    \/ PmExcept
    \/ PmAfterFindNumber
    \/ PmAskIndex
    \/ PmAfterGetProject
    \/ PmOldPm
    \/ PmAfterOldPm
    \/ PmNewPm
    \/ PmAfterRecentProjects
    \/ PmAfterRecentPms
    \/ PmAskPm
    \/ PmAfterNewPm
    \/ PmEdit
    \/ PmAfterEdit
    \/ PmNewService

SpecPm == InitPm /\ [][NextPm]_vars

----------------------------------------------------------------------------
(* get_most_recent_pms on the found sets the people layout may return.     *)

\* a found set of the people layout holds at most MaxPeople rows
MaxPeople == 3

\* the rows a found set is made of: three rows of person 1, one of them
\* active, and two active rows of person 2
PersonRows ==
    {Person(1, 1, <<"A">>, <<"B">>, 1), Person(2, 1, <<"A">>, <<"Z">>, 0),
     Person(3, 1, <<"A">>, <<"Y">>, 0), Person(4, 2, <<"C">>, <<"D">>, 1),
     Person(5, 2, <<"C">>, <<"E">>, 1)}

\* the found sets: the rows in every order the remote system may return
FoundPeople ==
    {f \in UNION {[1..n -> PersonRows] : n \in 1..MaxPeople} :
        \A i, j \in DOMAIN f : i # j => f[i] # f[j]}

\* lines 137-142 applied to the found set
DedupePeople ==
    /\ prog = "dedupe" /\ ppc = "idle"
    /\ pm_choices_df' = recent_pm_df(people)
    /\ ppc' = "deduped"
    /\ UNCHANGED <<prog, clientVars, invokeVars, batchVars, people,
                   project_to_change, target_pm, project_foundset_df,
                   old_pm_name, note_line, request, answer_kind, pm_edits,
                   changes, pathVars>>

InitDedupe ==
    /\ prog = "dedupe"
    /\ cpc = "ready" /\ ctor_error = "none" /\ ctor_login = "ok"
    /\ url_probe = "none" /\ net_probe = "none"
    /\ session = TRUE
    /\ auto_login_attempts = DefaultAttempts
    /\ InvokeIdle
    /\ BatchIdle
    /\ people \in FoundPeople
    /\ ppc = "idle"
    /\ project_to_change = ReturnedNone
    /\ target_pm = ReturnedNone
    /\ project_foundset_df = <<>>
    /\ pm_choices_df = <<>>
    /\ old_pm_name = PyNone
    /\ note_line = <<>>
    /\ request = NoRequest
    /\ answer_kind = "answer"
    /\ pm_edits = <<>>
    /\ changes = 0
    /\ PathIdle

NextDedupe == DedupePeople

SpecDedupe == InitDedupe /\ [][NextDedupe]_vars

----------------------------------------------------------------------------
(* The path conversion on its own: split_path and db_path_to_user_path     *)
(* applied to one path text.                                               *)

\* the longest text after the head of a path
MaxPathLen == 4

\* how a path text starts: nothing, a drive, a drive and a backslash, a root
PathHeads == {<<>>, <<"C", ":">>, <<"C", ":", "\\">>, <<"/">>}

\* the characters of the rest of a path text
PathChars == {"a", "\\", "/", "\n"}

PathTails == UNION {[1..n -> PathChars] : n \in 0..MaxPathLen}

PathTexts == {h \o t : h \in PathHeads, t \in PathTails}

\* split_path(path_text)
SplitPath ==
    /\ prog = "paths" /\ tpc = "idle"
    /\ path_parts' = split_path(path_text)
    /\ tpc' = "split"
    /\ UNCHANGED <<prog, clientVars, invokeVars, batchVars, pmVars, path_text,
                   user_path>>

\* db_path_to_user_path(path_text)
DbPathToUserPath ==
    /\ prog = "paths" /\ tpc = "split"
    /\ user_path' = db_path_to_user_path(path_text)
    /\ tpc' = "joined"
    /\ UNCHANGED <<prog, clientVars, invokeVars, batchVars, pmVars, path_text,
                   path_parts>>

InitPaths ==
    /\ prog = "paths"
    /\ cpc = "ready" /\ ctor_error = "none" /\ ctor_login = "ok"
    /\ url_probe = "none" /\ net_probe = "none"
    /\ session = TRUE
    /\ auto_login_attempts = DefaultAttempts
    /\ InvokeIdle
    /\ BatchIdle
    /\ PmIdle
    /\ path_text \in PathTexts
    /\ tpc = "idle"
    /\ path_parts = <<>>
    /\ user_path = <<>>

NextPaths == SplitPath \/ DbPathToUserPath

SpecPaths == InitPaths /\ [][NextPaths]_vars

----------------------------------------------------------------------------
(* One client and one wrapped remote call at a time: the caller builds the *)
(* clerk, may set auto_login_attempts, and calls _auto_relogin_fm on a     *)
(* server method whose successive answers are `script`.                    *)

Foundsets == {<<1>>, <<2>>}

ScriptAnswers ==
    {Ok(v) : v \in Foundsets}
        \cup {SessionExpired, NoMatch, OpaqueFault, Odbc1401, RequestError}

Scripts == [1..MaxBudget -> ScriptAnswers]

\* the remote system the clerk of the harness talks to: two Projects
ClientDatabase == [h \in RecordHandles |-> ProjectRecord(h, PyStr(<<"1">>))]

\* the record handed to update_record: a Project of the remote system with
\* its file location changed locally
UpdatedLocation == <<"u">>

\* clerk.auto_login_attempts = n
SetBudget ==
    /\ prog = "client" /\ cpc = "ready" /\ ipc = "idle"
    /\ \E n \in 1..MaxBudget :
         /\ n # auto_login_attempts
         /\ auto_login_attempts' = n
    /\ UNCHANGED <<prog, cpc, ctor_error, ctor_login, url_probe, net_probe,
                   session, invokeVars, batchVars, pmVars, pathVars>>

\* clerk._auto_relogin_fm(server_method, ...)
StartInvoke ==
    /\ prog = "client" /\ cpc = "ready" /\ ipc = "idle"
    /\ \E s \in Scripts : script' = s
    /\ BeginInvoke
    /\ UNCHANGED <<prog, clientVars, batchVars, pmVars, pathVars>>

\* clerk.update_record(record):
\* self._auto_relogin_fm(self.fm_server.edit, record=record)
UpdateRecord ==
    /\ prog = "client" /\ cpc = "ready" /\ ipc = "idle"
    /\ \E s \in Scripts : script' = s
    /\ \E h \in RecordHandles :
         edits' = <<[row |-> 0, record_id |-> h, field |-> "FileServerLocation",
                     value |-> UpdatedLocation]>>
    /\ op' = "update_record"
    /\ BeginInvoke
    /\ UNCHANGED <<prog, clientVars, remote, rows, ridx, bpc, status,
                   fmp_proj_num_foundset, fmp_proj_id_foundset, errors_logged,
                   row_start, run, fault_log, faults_used, first_run, pmVars,
                   pathVars>>

\* the wrapped method is called; fm_server.edit, when it succeeds, writes
\* the changed field of the record to the remote system
ClientCall ==
    /\ prog = "client"
    /\ calls < Len(script)
    /\ TryCall(script[calls + 1])
    /\ remote' = IF op = "update_record" /\ script[calls + 1].ok
                 THEN EditedRemote(edits[1].record_id, edits[1].field,
                                   edits[1].value)
                 ELSE remote
    /\ UNCHANGED <<prog, cpc, ctor_error, ctor_login, url_probe, net_probe,
                   auto_login_attempts, script, op, rows, ridx, bpc, status,
                   fmp_proj_num_foundset, fmp_proj_id_foundset, edits,
                   errors_logged, row_start, run, fault_log, faults_used,
                   first_run, pmVars, pathVars>>

ClientExcept ==
    /\ prog = "client"
    /\ \E login_ok \in BOOLEAN : ExceptBlock(login_ok)
    /\ UNCHANGED <<prog, cpc, ctor_error, ctor_login, url_probe, net_probe,
                   auto_login_attempts, script, batchVars, pmVars, pathVars>>

ClerkNew ==
    /\ cpc = "new"
    /\ ctor_error = "none"
    /\ ctor_login = "none"
    /\ url_probe = "none"
    /\ net_probe = "none"
    /\ session = FALSE
    /\ auto_login_attempts = DefaultAttempts

Init ==
    /\ prog = "client"
    /\ ClerkNew
    /\ InvokeIdle
    /\ BatchLocalsIdle
    /\ remote = ClientDatabase
    /\ first_run = [status |-> NewStatus, remote |-> remote, edits |-> <<>>]
    /\ PmIdle
    /\ PathIdle

Next ==
    \/ ClerkInit
    \/ SetBudget
    \/ StartInvoke
    \/ UpdateRecord
    \/ ClientCall
    \/ ClientExcept

Spec == Init /\ [][Next]_vars

\* the interpreter runs a call that was entered: the `try` and the except
\* block are taken when they are reached
SpecRunning == Spec /\ WF_vars(ClientCall) /\ WF_vars(ClientExcept)

----------------------------------------------------------------------------
(* Claims about _auto_relogin_fm and __init__, checked under Spec.         *)

\* _auto_relogin_fm has returned or raised
InvokeDone == prog = "client" /\ ipc \in {"returned", "raised"}

\* the first k answers of s are faults satisfying P and answer k+1 is a success
FaultsThenOk(s, k, P(_)) ==
    /\ k + 1 <= Len(s)
    /\ \A i \in 1..k : ~s[i].ok /\ P(s[i])
    /\ s[k + 1].ok

IsCode952(e) == e.code = 952
IsCode401(e) == e.code = 401
IsOtherCode(e) == e.code \notin {952, 401}

\* C1: whenever the remote answers are k session-expired faults (code 952)
\* followed by a success, with k+1 within the attempt budget, and every
\* re-login succeeds, _auto_relogin_fm returns the value of the successful
\* call instead of raising.
C1_ExpiredThenSuccessReturns ==
    \A k \in 0..(MaxBudget - 1) :
        ( /\ InvokeDone
          /\ k + 1 <= auto_login_attempts
          /\ FaultsThenOk(script, k, IsCode952)
          /\ ~login_failed )
        => iresult = Returned(script[k + 1].val)

\* C2: a fault that is neither session-expired nor no-match is retried until
\* the budget is used up: a success on a later attempt within the budget is
\* returned, and the fault is raised only once auto_login_attempts calls were
\* made.
C2_OtherFaultRetriedToBudget ==
    /\ \A k \in 0..(MaxBudget - 1) :
        ( /\ InvokeDone
          /\ k + 1 <= auto_login_attempts
          /\ FaultsThenOk(script, k, IsOtherCode) )
        => iresult = Returned(script[k + 1].val)
    /\ ( /\ InvokeDone
         /\ iresult.kind = "raise"
         /\ \A i \in DOMAIN faults_seen : IsOtherCode(faults_seen[i]) )
        => calls = auto_login_attempts

\* C3: for every attempt budget, when the remote call answers with the
\* no-match fault (code 401), _auto_relogin_fm returns None without raising
\* and warns.
C3_NoMatchReturnsNone ==
    ( /\ InvokeDone
      /\ faults_seen # <<>>
      /\ IsCode401(faults_seen[Len(faults_seen)]) )
    => (iresult = ReturnedNone /\ warned >= 1)

\* C4: within one call of _auto_relogin_fm, login() was called exactly once
\* for each session-expired fault (code 952) met, and for no other fault.
C4_OneLoginPerExpiredFault ==
    InvokeDone =>
        logins = Cardinality({i \in DOMAIN faults_seen : IsCode952(faults_seen[i])})

\* C5: when the login of __init__ fails, construction ends in an error: a
\* connectivity error when the host cannot be reached (no general network
\* path, or else server unreachable), an authentication error when the host
\* is reachable; no clerk without a session is handed to the caller.
C5_FailedLoginAlwaysRaises ==
    ( /\ ctor_login = "failed"
      /\ cpc \in {"ready", "failed"} )
    => /\ cpc = "failed"
       /\ (url_probe = "ConnectionError" /\ net_probe = "ConnectionError")
            => ctor_error = "no_internet"
       /\ (url_probe = "ConnectionError" /\ net_probe = "ok")
            => ctor_error = "no_server"
       /\ url_probe = "ok" => ctor_error = "auth"

\* C20: a fault is classified by its code only: a call of _auto_relogin_fm
\* returns the empty result only for a fault of code 401 and calls login()
\* only for a fault of code 952; a fault of any other code, even one whose
\* code or text contains the digits 401 or 952, is raised.
C20_ClassifiedByCodeOnly ==
    InvokeDone =>
        /\ iresult = ReturnedNone =>
              (faults_seen # <<>> /\ IsCode401(faults_seen[Len(faults_seen)]))
        /\ logins > 0 =>
              \E i \in DOMAIN faults_seen : IsCode952(faults_seen[i])
        /\ (faults_seen # <<>> /\ IsOtherCode(faults_seen[Len(faults_seen)]))
              => iresult = Raised(faults_seen[Len(faults_seen)])

----------------------------------------------------------------------------
(* Claims about the batch location sync, checked under SpecBatch.          *)

\* the loop body has just ended for row ridx
RowDone == prog = "batch" /\ bpc \in {"loop", "finished"} /\ ridx >= 1

\* what the remote system answered to the call o of the current row
AnswerTo(o, normal) ==
    IF fault_log[<<ridx, o>>] = "answer" THEN normal
    ELSE FaultOf(fault_log[<<ridx, o>>])

\* the answer to the query by the row's project number
NumberAnswer ==
    AnswerTo("find_number", FmFind("ProjectNumber", Str(rows[ridx].number)))

\* the Projects of a found set whose trimmed project number is string-equal
\* to the business key of the row
KeyMatches(found, key) ==
    LET Same(rec) == key.t = "str" /\ Strip(rec.ProjectNumber.s) = key.s
    IN  SelectSeq(found, Same)

\* the answer to the re-fetch of Project rec by its primary key
IdAnswer(rec) == AnswerTo("find_id", FmFind("ID_Primary", rec.ID_Primary.s))

\* the edit of the current row was accepted by the remote system
EditAccepted == fault_log[<<ridx, "edit">>] = "answer"

RowEdits == Len(edits) - row_start.edits
Delta(field) == status[field] - row_start.status[field]
Counters ==
    {"project_locations_updated", "projects_not_in_fmp", "projects_not_in_db",
     "multiple_projects_in_fmp", "ids_not_found_in_fmp"}

\* only counter `field` changed in this row, by one; nothing was appended
OnlyCounted(field) ==
    /\ Delta(field) = 1
    /\ \A c \in Counters \ {field} : Delta(c) = 0
    /\ status.projects_modified = row_start.status.projects_modified

\* the business key of the row matches exactly one Project of the answer
\* and the re-fetch of that Project answers with exactly that record
UniqueAndConfirmed ==
    /\ RowDone
    /\ NumberAnswer.ok
    /\ Len(KeyMatches(NumberAnswer.val, rows[ridx].number)) = 1
    /\ LET rec == KeyMatches(NumberAnswer.val, rows[ridx].number)[1]
       IN  /\ IdAnswer(rec).ok
           /\ Len(IdAnswer(rec).val) = 1
           /\ IdAnswer(rec).val[1].recordId = rec.recordId

RowCounted ==
    /\ Delta("project_locations_updated") = 1
    /\ status.projects_modified =
         Append(row_start.status.projects_modified, rows[ridx].number)

\* C6 as stated: a row whose business key matches exactly one remote Project
\* (the remote keys trimmed) and whose re-fetch by primary key returns
\* exactly that record gets exactly one edit call, updated + 1 and its key
\* appended to projects_modified.
C6_UniqueMatchAlwaysCounted ==
    UniqueAndConfirmed => (RowEdits = 1 /\ RowCounted)

\* C6, amended: such a row gets exactly one edit call; updated is
\* incremented and the key appended exactly when that call succeeds, and
\* otherwise the status is left as it was.
C6_UniqueMatchEditedOnce ==
    UniqueAndConfirmed =>
        /\ RowEdits = 1
        /\ edits[Len(edits)].row = ridx
        /\ IF EditAccepted THEN RowCounted ELSE status = row_start.status

C6_Witness ==
    UniqueAndConfirmed /\ EditAccepted /\ RowCounted /\ RowEdits = 1

\* C7: whenever the answer to the query by project number, filtered to the
\* exact matches of the business key, holds more than one Project,
\* multiple_projects_in_fmp is incremented by 1 for the row, no edit call is
\* issued for it and nothing else of the status changes.
C7_AmbiguousMatchSkipped ==
    ( /\ RowDone
      /\ NumberAnswer.ok
      /\ Len(KeyMatches(NumberAnswer.val, rows[ridx].number)) > 1 )
    => (OnlyCounted("multiple_projects_in_fmp") /\ RowEdits = 0)

C7_Witness ==
    /\ RowDone
    /\ NumberAnswer.ok
    /\ Len(KeyMatches(NumberAnswer.val, rows[ridx].number)) > 1
    /\ Delta("multiple_projects_in_fmp") = 1

\* C8: when the query by project number finds no record (the no-match fault,
\* turned into None) or none of the records found is an exact match,
\* projects_not_in_fmp is incremented by 1 for the row, no edit call is
\* issued, nothing is raised to the row boundary and the loop goes on.
C8_NotFoundCounted ==
    ( /\ RowDone
      /\ \/ NumberAnswer = NoMatch
         \/ /\ NumberAnswer.ok
            /\ KeyMatches(NumberAnswer.val, rows[ridx].number) = <<>> )
    => /\ OnlyCounted("projects_not_in_fmp")
       /\ RowEdits = 0
       /\ errors_logged = row_start.errors

C8_Witness ==
    /\ RowDone
    /\ NumberAnswer = NoMatch
    /\ Delta("projects_not_in_fmp") = 1
    /\ Len(rows) < MaxRows

C8_WitnessFiltered ==
    /\ RowDone
    /\ NumberAnswer.ok
    /\ KeyMatches(NumberAnswer.val, rows[ridx].number) = <<>>
    /\ Delta("projects_not_in_fmp") = 1

\* C9: a second run over the same rows, from the remote state the first run
\* left and with the remote system answering as before, ends with the same
\* updated count, the same projects_modified and the same remote state.
SecondRunDone == prog = "batch" /\ run = 2 /\ bpc = "finished"

C9_RerunIdempotent ==
    SecondRunDone =>
        /\ status.project_locations_updated
             = first_run.status.project_locations_updated
        /\ status.projects_modified = first_run.status.projects_modified
        /\ remote = first_run.remote

C9_Witness ==
    /\ SecondRunDone
    /\ Len(rows) = MaxRows
    /\ status.project_locations_updated = MaxRows
    /\ first_run.status.project_locations_updated = MaxRows
    /\ \E h \in RecordHandles :
          remote[h].present /\ remote[h].FileServerLocation # OldLocation

\* the edits issued so far are in the order of their source rows
EditsInRowOrder ==
    \A i, j \in DOMAIN edits : i < j => edits[i].row < edits[j].row

\* the loop takes the rows one by one, in retrieval order
RowsTakenInOrder ==
    \/ ridx' = ridx
    \/ ridx' = ridx + 1 /\ rows'[ridx'] = IF run = 1 THEN rows'[Len(rows')]
                                           ELSE rows[ridx + 1]
    \/ run = 1 /\ run' = 2 /\ ridx' = 0

\* an exception raised in a row is logged and the `for` goes on
ErrorKeepsLoop ==
    (run' = run /\ errors_logged' # errors_logged) =>
        /\ errors_logged' = errors_logged + 1
        /\ bpc' = "loop"
        /\ ridx' = ridx /\ rows' = rows

\* the loop is left only when no row remains
LoopLeftAtEnd ==
    (bpc' = "finished" /\ bpc # "finished") =>
        (bpc = "loop" /\ ridx = Len(rows) /\ ridx' = ridx)

\* C14: the rows are processed strictly in retrieval order and every row is
\* processed: a fault raised in one row is caught at the row boundary and
\* the later rows are still processed; the edits issued are in the order
\* of their source rows.
C14_EveryRowProcessedInOrder ==
    /\ [][prog = "batch" =>
            RowsTakenInOrder /\ ErrorKeepsLoop /\ LoopLeftAtEnd]_vars
    /\ [](prog = "batch" => EditsInRowOrder)
    /\ []((prog = "batch" /\ bpc = "finished") => ridx = Len(rows))

\* the first row of the second run raised and the second row was edited
C14_Witness ==
    /\ prog = "batch" /\ run = 2 /\ bpc = "finished"
    /\ Len(rows) >= 2 /\ ridx = Len(rows)
    /\ errors_logged >= 1
    /\ fault_log[<<1, "find_number">>] = "opaque"
    /\ \E i \in DOMAIN edits : edits[i].row = 2

\* the Projects of a found set whose project number, as a trimmed string,
\* equals the business key of the row as a trimmed string
TrimmedMatches(found, key) ==
    LET Same(rec) == Strip(Str(rec.ProjectNumber)) = Strip(Str(key))
    IN  SelectSeq(found, Same)

\* C16: the business key is compared as a whitespace-trimmed string on both
\* sides: a row whose key differs from the key of the single remote Project
\* only by surrounding whitespace, or by being a non-string value of the
\* same text, is matched to that Project and proceeds to the update.
C16_KeyTrimmedOnBothSides ==
    ( /\ RowDone
      /\ NumberAnswer.ok
      /\ Len(TrimmedMatches(NumberAnswer.val, rows[ridx].number)) = 1
      /\ LET rec == TrimmedMatches(NumberAnswer.val, rows[ridx].number)[1]
         IN  /\ IdAnswer(rec).ok
             /\ Len(IdAnswer(rec).val) = 1 )
    => (RowEdits = 1 /\ Delta("projects_not_in_fmp") = 0)

\* the business key of the row matches exactly one Project of the answer
UniqueKeyMatch ==
    /\ RowDone
    /\ NumberAnswer.ok
    /\ Len(KeyMatches(NumberAnswer.val, rows[ridx].number)) = 1

\* the answer to the re-fetch of that Project by its primary key
RefetchAnswer ==
    IdAnswer(KeyMatches(NumberAnswer.val, rows[ridx].number)[1])

\* C17: after a unique business-key match the record is re-fetched by its
\* primary key; if that lookup returns no record or more than one record,
\* ids_not_found_in_fmp is incremented by exactly 1, no edit call is issued
\* for the row and no other counter changes.
C17_RefetchNotConfirmedCounted ==
    ( /\ UniqueKeyMatch
      /\ \/ RefetchAnswer = NoMatch
         \/ RefetchAnswer.ok /\ Len(RefetchAnswer.val) > 1 )
    => (OnlyCounted("ids_not_found_in_fmp") /\ RowEdits = 0)

\* the re-fetch returned more than one record
C17_Witness ==
    /\ UniqueKeyMatch
    /\ RefetchAnswer.ok /\ Len(RefetchAnswer.val) > 1
    /\ Delta("ids_not_found_in_fmp") = 1

\* the re-fetch returned no record
C17_WitnessNone ==
    /\ UniqueKeyMatch
    /\ RefetchAnswer = NoMatch
    /\ Delta("ids_not_found_in_fmp") = 1

\* the counters of the outcomes that are not a failed edit
OutcomeCounters ==
    {"project_locations_updated", "projects_not_in_fmp",
     "multiple_projects_in_fmp", "ids_not_found_in_fmp"}

\* the edit call of the row was issued and failed: it raised or it reported
\* no success
EditFailed == RowDone /\ RowEdits = 1 /\ ~EditAccepted

\* C18: when the edit call of a row fails, the failure is logged and counted
\* in the tally, in a counter other than updated, notFoundInRemote,
\* ambiguousMatch and idNotConfirmed, so that every processed row is
\* accounted for by exactly one counter.
C18_FailedEditCounted ==
    EditFailed =>
        /\ errors_logged = row_start.errors + 1
        /\ \E c \in Counters \ OutcomeCounters : OnlyCounted(c)

----------------------------------------------------------------------------
(* Claims about the interactive manager change, checked under SpecPm.      *)

\* the edit call of the current change_project_pm was made
EditSent ==
    /\ prog = "pm"
    /\ \/ ppc = "editing" /\ calls >= 1
       \/ ppc = "changed"

\* that call: what was sent, and whether the remote system applied it
LastEdit == pm_edits[Len(pm_edits)]

\* change_project_pm has updated a Project whose remote record had notes
\* text immediately before the edit
UpdatedProjectWithNotes ==
    /\ EditSent
    /\ LastEdit.applied
    /\ LastEdit.prior # <<>>

\* C10: when change_project_pm updates a Project that already has notes
\* text, the notes value written to the remote record is the new audit
\* line, a newline, then the existing notes text (the new entry above the
\* prior content).
C10_NewEntryAbovePriorNotes ==
    UpdatedProjectWithNotes =>
        /\ LastEdit.field_data.Notes = note_line \o <<"\n">> \o LastEdit.prior
        /\ remote[LastEdit.record_id].Notes = LastEdit.field_data.Notes

\* C11: after any sequence of manager changes made through
\* change_project_pm, several calls on one PmChangeService included, no edit
\* discards content: the notes value every applied edit writes contains the
\* notes text the remote record held immediately before that edit.
C11_NoEditDiscardsNotes ==
    prog = "pm" =>
        \A i \in DOMAIN pm_edits :
            pm_edits[i].applied =>
                Contains(pm_edits[i].field_data.Notes, pm_edits[i].prior)

\* a number written with exactly two digits, and the stamp YYYY-MM-DD HH:MM:SS
TwoDigits(n) == <<DigitChar[(n \div 10) + 1], DigitChar[(n % 10) + 1]>>
Stamp(now) ==
    TwoDigits(now.Y \div 100) \o TwoDigits(now.Y % 100) \o <<"-">>
        \o TwoDigits(now.M) \o <<"-">> \o TwoDigits(now.D) \o <<" ">>
        \o TwoDigits(now.h) \o <<":">> \o TwoDigits(now.m) \o <<":">>
        \o TwoDigits(now.s)

\* the two forms of the audit line
SetLine(new, now) ==
    <<"P","r","o","j","e","c","t"," ","P","M"," ","s","e","t"," ","t","o"," ">>
        \o new \o <<" ","o","n"," ">> \o Stamp(now)
ChangedLine(old, new, now) ==
    <<"P","r","o","j","e","c","t"," ","P","M"," ",
      "c","h","a","n","g","e","d"," ","f","r","o","m"," ">>
        \o old \o <<" ","t","o"," ">> \o new \o <<" ","o","n"," ">>
        \o Stamp(now)

\* a manager reference is absent when the field is empty or None
ReferenceAbsent(ref) == ref.t = "none" \/ ref.s = <<>>

\* C12: the audit line is exactly 'Project PM set to <new> on <t>' when no
\* previous manager is passed and 'Project PM changed from <old> to <new> on
\* <t>' otherwise, t being YYYY-MM-DD HH:MM:SS; and change_project_pm passes
\* no previous manager exactly when the manager reference of the Project is
\* absent in the Project record the service holds.
C12_AuditLineFormat ==
    EditSent =>
        /\ \E now \in Times :
              note_line =
                  IF old_pm_name = PyNone
                  THEN SetLine(FullName(target_pm.val), now)
                  ELSE ChangedLine(old_pm_name.s, FullName(target_pm.val), now)
        /\ (old_pm_name = PyNone)
               <=> ReferenceAbsent(project_to_change.val.ID_ProjectManager)

C12_Witness ==
    /\ EditSent
    /\ ~ReferenceAbsent(project_to_change.val.ID_ProjectManager)
    /\ \E now \in Times :
          note_line = ChangedLine(old_pm_name.s, FullName(target_pm.val), now)

C12_WitnessSet ==
    /\ EditSent
    /\ ReferenceAbsent(project_to_change.val.ID_ProjectManager)
    /\ \E now \in Times : note_line = SetLine(FullName(target_pm.val), now)

\* the operator has interrupted a prompt and the program has exited
Exited == prog = "pm" /\ ppc = "exited"

\* what a remote call, a login or an edit would change
RemoteTraffic == <<ipc, calls, logins, session, request, remote, pm_edits>>

\* the edit of pm_edits applied last to record h
LastAppliedTo(h) ==
    LET applied == {i \in DOMAIN pm_edits :
                       pm_edits[i].applied /\ pm_edits[i].record_id = h}
    IN  IF applied = {} THEN 0
        ELSE CHOOSE i \in applied : \A j \in applied : j <= i

\* every record edited still holds what its last applied edit wrote
EditsRemainApplied ==
    \A h \in RecordHandles :
        LastAppliedTo(h) # 0 =>
            /\ remote[h].Notes = pm_edits[LastAppliedTo(h)].field_data.Notes
            /\ remote[h].ID_ProjectManager
                   = pm_edits[LastAppliedTo(h)].field_data.ID_ProjectManager

\* C15: once the operator interrupts a prompt the program terminates without
\* any further remote call (no find, fetch, login or edit), and the edits
\* applied before the interrupt remain applied.
C15_NoRemoteCallAfterInterrupt ==
    /\ [][(prog = "pm" /\ (ppc = "exited" \/ ppc' = "exited")) =>
             (ppc' = "exited" /\ UNCHANGED RemoteTraffic)]_vars
    /\ [](Exited => (ipc = "idle" /\ EditsRemainApplied))

\* the operator interrupts the prompt of a second change, after an edit
C15_Witness ==
    /\ Exited
    /\ changes >= 1
    /\ \E h \in RecordHandles : LastAppliedTo(h) # 0

\* the lookup of the Person with key id returns several rows, one of them
\* active
SeveralRowsOneActive(id) ==
    /\ Cardinality({i \in DOMAIN people : people[i].ID_Primary = id}) > 1
    /\ \E i \in DOMAIN people :
          people[i].ID_Primary = id /\ people[i].Active_c = 1

\* C19: whenever the lookup of a Person by key returns several rows, the row
\* the program uses is the active one if there is one; here for the row
\* get_pm_by_id hands to elicit_new_pm as the new manager.
C19_LookupUsesActiveRow ==
    (prog = "pm" /\ target_pm.kind = "value"
        /\ SeveralRowsOneActive(target_pm.val.ID_Primary))
    => target_pm.val.Active_c = 1

----------------------------------------------------------------------------
(* Claims about the people found sets, checked under SpecDedupe.           *)

\* the rows of the found set with key id, and the active ones among them
RowsOfKey(id) == {i \in DOMAIN people : people[i].ID_Primary = id}
ActiveRowsOfKey(id) == {i \in RowsOfKey(id) : people[i].Active_c = 1}
KeysFound == {people[i].ID_Primary : i \in DOMAIN people}

\* C13: for every key of the found set under which exactly one row is
\* active, the row get_most_recent_pms keeps for that key is the active one,
\* whatever the order of the found set; the result has one row per key.
C13_DedupeKeepsActiveRow ==
    (prog = "dedupe" /\ ppc = "deduped") =>
        /\ \A id \in KeysFound :
              Cardinality({i \in DOMAIN pm_choices_df :
                              pm_choices_df[i].ID_Primary = id}) = 1
        /\ \A i \in DOMAIN pm_choices_df :
              pm_choices_df[i].ID_Primary \in KeysFound
        /\ \A id \in KeysFound :
              Cardinality(ActiveRowsOfKey(id)) = 1 =>
                  \E i \in DOMAIN pm_choices_df :
                      LET a == people[CHOOSE r \in ActiveRowsOfKey(id) : TRUE]
                      IN  /\ pm_choices_df[i].ID_Primary = id
                          /\ pm_choices_df[i].NameFirst = a.NameFirst
                          /\ pm_choices_df[i].NameLast = a.NameLast

\* the active row of person 1 comes last in the found set and is kept
C13_Witness ==
    /\ prog = "dedupe" /\ ppc = "deduped"
    /\ Len(people) = MaxPeople
    /\ people[Len(people)] = Person(1, 1, <<"A">>, <<"B">>, 1)
    /\ Cardinality(RowsOfKey(PyInt(1))) >= 2
    /\ \E i \in DOMAIN pm_choices_df :
          pm_choices_df[i].ID_Primary = PyInt(1)
              /\ pm_choices_df[i].NameLast = <<"B">>

----------------------------------------------------------------------------
(* Termination of _auto_relogin_fm, under SpecRunning.                      *)

InvokeRunning == prog = "client" /\ ipc \in {"call", "except"}

\* the calls of the remote method and the re-logins made so far are within
\* the budget, and a call that ended did so in one of the three ways
InvokeBounded ==
    prog = "client" =>
        /\ calls <= auto_login_attempts
        /\ Len(faults_seen) <= calls
        /\ logins <= Len(faults_seen)
        /\ InvokeDone => iresult.kind \in {"value", "none", "raise"}

\* C24: every call of _auto_relogin_fm terminates whatever the faults: it
\* makes at most auto_login_attempts calls of the remote method and at most
\* one re-login per failed call, and it ends by returning a result, by
\* returning the empty result, or by raising.
C24_InvokeTerminatesWithinBudget ==
    /\ []InvokeBounded
    /\ InvokeRunning ~> InvokeDone

\* a call under the default budget met a fault, re-logged in once and ended
C24_Witness ==
    /\ InvokeDone
    /\ auto_login_attempts = DefaultAttempts
    /\ Len(faults_seen) = 1 /\ logins = 1
    /\ iresult.kind = "raise"

\* a call under the default budget ended with the empty result
C24_WitnessNone ==
    /\ InvokeDone
    /\ auto_login_attempts = DefaultAttempts
    /\ Len(faults_seen) = 1
    /\ iresult.kind = "none"

----------------------------------------------------------------------------
(* Claims about the tally of a batch run, under SpecBatch.                  *)

\* a is b with some elements left out, the order kept
RECURSIVE IsSubsequence(_, _)
IsSubsequence(a, b) ==
    IF a = <<>> THEN TRUE
    ELSE IF b = <<>> THEN FALSE
    ELSE IF Head(a) = Head(b) THEN IsSubsequence(Tail(a), Tail(b))
    ELSE IsSubsequence(a, Tail(b))

\* the business keys of the rows taken from the source so far
KeysTaken == [i \in 1..ridx |-> rows[i].number]

CounterSum ==
    status.project_locations_updated + status.projects_not_in_fmp
      + status.projects_not_in_db + status.multiple_projects_in_fmp
      + status.ids_not_found_in_fmp

\* the rows whose loop body has ended
RowsProcessed == IF bpc \in {"loop", "finished"} THEN ridx ELSE ridx - 1

\* the counters that differ from their value at the start of the current row
ChangedCounters == {c \in Counters : Delta(c) # 0}

\* C23: at every point of a batch run, updated equals the length of
\* modifiedKeys, modifiedKeys is an in-order subsequence of the business
\* keys of the rows processed so far, the current row has changed at most
\* one counter and that one by exactly 1, and the counters sum to at most
\* the number of rows processed.
C23_TallyConsistent ==
    prog = "batch" =>
        /\ status.project_locations_updated = Len(status.projects_modified)
        /\ IsSubsequence(status.projects_modified, KeysTaken)
        /\ Cardinality(ChangedCounters) <= 1
        /\ \A c \in ChangedCounters : Delta(c) = 1
        /\ CounterSum <= RowsProcessed

\* two rows have been processed, the first was skipped and counted, the
\* second was updated: every row is counted and the modified keys are a
\* proper part of the keys processed
C23_Witness ==
    /\ RowDone /\ ridx = 2
    /\ rows[1].number # rows[2].number
    /\ status.projects_modified = <<rows[2].number>>
    /\ CounterSum = 2

----------------------------------------------------------------------------
(* Claims about what a batch run writes, under SpecBatch.                   *)

OtherFields == {"present", "recordId", "ID_Primary", "ProjectNumber",
                "ProjectName", "Notes", "ID_ProjectManager"}

\* the edit calls are of distinct rows, each names the file-location field
\* only, and the edit of the current row targets the record handle of the
\* one record its re-fetch by primary key returned
EditsWellTargeted ==
    prog = "batch" =>
        /\ \A i, j \in 1..Len(edits) :
              i # j => edits[i].row # edits[j].row
        /\ \A i \in 1..Len(edits) : edits[i].field = "FileServerLocation"
        /\ (ridx >= 1 /\ RowEdits >= 1) =>
              /\ RowEdits = 1
              /\ edits[Len(edits)].row = ridx
              /\ fmp_proj_id_foundset.kind = "value"
              /\ Len(fmp_proj_id_foundset.val) = 1
              /\ edits[Len(edits)].record_id
                    = fmp_proj_id_foundset.val[1].recordId

\* a step changes the remote system only by carrying out the edit call it
\* makes: the file location of the targeted record becomes the value sent,
\* every other field and every other record stays as it was
RemoteChangedByEditOnly ==
    prog = "batch" =>
        /\ \A h \in RecordHandles : \A f \in OtherFields :
              remote'[h][f] = remote[h][f]
        /\ remote' # remote =>
              /\ edits' # edits
              /\ edits' = Append(edits, edits'[Len(edits')])
              /\ LET e == edits'[Len(edits')]
                 IN  /\ e.row = ridx
                     /\ remote' = [remote EXCEPT
                                     ![e.record_id].FileServerLocation = e.value]

\* C25: in the batch sync at most one edit call is made per source row; it
\* targets the record handle of the record returned by the primary-key
\* re-fetch and changes only the file-location field; no other remote
\* record and no other field is modified, and a row that makes no edit call
\* leaves the remote state unchanged.
C25_EditTouchesOnlyRefetchedLocation ==
    /\ []EditsWellTargeted
    /\ [][RemoteChangedByEditOnly]_vars

\* the edit of a row was carried out on one Project while another Project
\* of the remote system kept its location
C25_Witness ==
    /\ RowDone /\ RowEdits = 1
    /\ LET e == edits[Len(edits)]
       IN  /\ remote[e.record_id].FileServerLocation = e.value
           /\ e.value # OldLocation
           /\ \E h \in RecordHandles \ {e.record_id} :
                 /\ remote[h].present
                 /\ remote[h].FileServerLocation = OldLocation

\* a row was skipped without an edit call and the remote system is as it was
C25_WitnessSkipped ==
    /\ RowDone /\ run = 1 /\ ridx = 1 /\ RowEdits = 0
    /\ status.projects_not_in_fmp = 1
    /\ \A h \in RecordHandles :
          remote[h].present => remote[h].FileServerLocation = OldLocation

----------------------------------------------------------------------------
(* Claims about split_path, under SpecPaths.                                *)

\* the pieces of s between backslashes, empty ones included
RECURSIVE PiecesFrom(_, _, _)
PiecesFrom(s, i, piece) ==
    IF i > Len(s) THEN <<piece>>
    ELSE IF s[i] = "\\" THEN <<piece>> \o PiecesFrom(s, i + 1, <<>>)
    ELSE PiecesFrom(s, i + 1, Append(piece, s[i]))

NonEmptyPieces(s) == SelectSeq(PiecesFrom(s, 1, <<>>), LAMBDA x : x # <<>>)

\* a letter, a colon, a backslash, then at least one more character
IsDriveLetterPath(s) ==
    /\ Len(s) >= 4
    /\ s[1] \in Letters /\ s[2] = ":" /\ s[3] = "\\"

AfterDrive(s) == SubSeq(s, 3, Len(s))

\* the text after the first backslash holds a character before any line
\* break, and no line break except as its last character
OneLine(s) ==
    LET rest == SubSeq(s, 4, Len(s))
    IN  /\ rest[1] # "\n"
        /\ \A i \in 1..(Len(rest) - 1) : rest[i] # "\n"

SplitDone == prog = "paths" /\ tpc # "idle"

DriveThenPieces ==
    path_parts = <<SubSeq(path_text, 1, 2)>>
                   \o NonEmptyPieces(AfterDrive(path_text))

\* C21 as stated: for every drive-letter path (a letter, a colon, a
\* backslash, at least one more character) split_path returns the drive
\* token followed by the non-empty backslash-separated pieces of the rest,
\* in order, and never an empty segment.
C21_DrivePathSplitOnBackslash ==
    (SplitDone /\ IsDriveLetterPath(path_text)) =>
        /\ DriveThenPieces
        /\ \A i \in 1..Len(path_parts) : path_parts[i] # <<>>

\* C21 amended: the same for every drive-letter path whose text after the
\* first backslash starts with a character other than a line break and has
\* no line break before its last character.
C21_OneLineDrivePathSplitOnBackslash ==
    (SplitDone /\ IsDriveLetterPath(path_text) /\ OneLine(path_text)) =>
        /\ DriveThenPieces
        /\ \A i \in 1..Len(path_parts) : path_parts[i] # <<>>

\* a drive-letter path with two backslashes in a row between two pieces has
\* been split
C21_Witness ==
    /\ SplitDone /\ IsDriveLetterPath(path_text) /\ OneLine(path_text)
    /\ \E i \in 4..(Len(path_text) - 1) :
          path_text[i] = "\\" /\ path_text[i + 1] = "\\"
    /\ Len(path_parts) >= 3

\* C22: split_path of a drive letter, a colon and one backslash returns the
\* drive token alone, without the backslash.
C22_DriveOnlyGivesDriveToken ==
    (SplitDone /\ Len(path_text) = 3 /\ path_text[1] \in Letters
       /\ path_text[2] = ":" /\ path_text[3] = "\\") =>
        path_parts = <<SubSeq(path_text, 1, 2)>>

============================================================================
